---- MODULE Spec2Model ----
(***************************************************************************)
(* Epoch-based reclamation (src/src/ebr.rs) as a state machine.            *)
(*                                                                         *)
(* Every atomic load, store and compare-exchange on GLOBAL_EBR is one      *)
(* step of the thread that executes it; thread-local work (LOCAL_DATA,     *)
(* the garbage VecDeque) is folded into the neighbouring atomic step.      *)
(* The registry size, the garbage high-water mark and the epoch width are  *)
(* scaled down; the history follows the objects of Objs, and the objects   *)
(* retired after them share one name.                                      *)
(***************************************************************************)
EXTENDS Integers, Sequences, FiniteSets, TLC

\* ----------------------------------------------------------------- bounds
NThreads == 2          \* thread identities running at the same time
MAX_THREADS == 2       \* registry slots (ebr.rs:13 has 32)
GARBAGE_LIMIT == 2     \* high-water mark of retire() (ebr.rs:170 has 64)
MaxObjs == 4           \* objects that can be retired in one behaviour
MaxGuards == 1         \* guards one thread holds at the same time
EPOCH_BITS == 3        \* width of the epoch counter (usize in the source)

Threads == 1..NThreads
Slots == 0..(MAX_THREADS - 1)
Objs == 1..MaxObjs
EpochRange == 2 ^ EPOCH_BITS
UNPINNED_EPOCH == EpochRange - 1

\* Option<LocalData>: None, or Some(LocalData { index, local_garbage })
None == [some |-> FALSE, index |-> 0, local_garbage |-> <<>>]
Some(i, g) == [some |-> TRUE, index |-> i, local_garbage |-> g]

Retired(p, e) == [ptr |-> p, epoch |-> e]
Guard(i, e) == [index |-> i, epoch |-> e]

Range(q) == {q[j] : j \in DOMAIN q}

RemoveAt(s, k) == [j \in 1..(Len(s) - 1) |-> IF j < k THEN s[j] ELSE s[j + 1]]

\* mutant: the epoch steps backwards
wrapping_sub(a, b) == (a - b) % EpochRange

\* usize::wrapping_add
wrapping_add(a, b) == (a + b) % EpochRange

VARIABLES
  global_epoch,   \* GLOBAL_EBR.global_epoch
  active,         \* GLOBAL_EBR.threads[i].active
  local_epoch,    \* GLOBAL_EBR.threads[i].local_epoch
  epoch_lock,     \* GLOBAL_EBR.epoch_lock: 0 when free, else the holder
  local_data,     \* LOCAL_DATA of each thread
  guards,         \* the Guard values each thread holds, oldest first
  pc,             \* where each thread is
  loop_i,         \* the loop variable i of the function the thread is in
  pin_epoch,      \* pin(): the local global_epoch
  cur_epoch,      \* attempt_advance_epoch(): cur_epoch
  new_epoch,      \* attempt_advance_epoch(): new_epoch
  taken,          \* unregister_thread(): data, taken out of LOCAL_DATA
  next_obj,       \* the next object to be unlinked and retired
  freed,          \* history: how often each object's deleter was invoked
  refs,           \* history: for each guard, the objects other threads have
                  \* unlinked and retired while it was live
  registrations,  \* history: slots claimed in the thread's lifetime (0, 1, 2 = more)
  owner,          \* history: the thread whose registration holds each slot
  last_pin        \* history: epoch of the thread's latest guard, -1 if none

ebr == <<global_epoch, active, local_epoch, epoch_lock, local_data, guards,
         pc, loop_i, pin_epoch, cur_epoch, new_epoch, taken, next_obj,
         freed, refs, registrations, owner, last_pin>>

shared == <<global_epoch, active, local_epoch, epoch_lock>>
locals == <<loop_i, pin_epoch, cur_epoch, new_epoch, taken>>
history == <<freed, refs, registrations, owner, last_pin>>

\* ----------------------------------------------------------- RingBuffer
\* One RingBuffer<T> of `size` cells, the threads that use it, and the Ok
\* pushes and the pops that returned a value, in the order of their return.
RING_SIZE == 2
NRing == 3
MaxPushes == 4

RThreads == 1..NRing
Values == 1..MaxPushes

\* Option<T> of a cell or of a local: None, Some(v)
NoValue == <<>>
SomeValue(v) == <<v>>

VARIABLES
  buffer,         \* RingBuffer.buffer: the cells
  write_index,    \* RingBuffer.write_index
  read_index,     \* RingBuffer.read_index
  ring_pc,        \* where each thread is in push() or pop()
  write,          \* push(), pop(): the local write
  read,           \* push(), pop(): the local read
  value,          \* push(): the argument; pop(): what take() gave
  next_value,     \* the value the next push() is called with
  result,         \* what the latest call of each thread returned
  pushed,         \* history: the values whose push() returned Ok
  popped,         \* history: the values pop() returned
  was_full        \* history: for each thread, whether the buffer has held
                  \* RING_SIZE elements at some moment of its latest call

ring == <<buffer, write_index, read_index, ring_pc, write, read, value,
          next_value, result, pushed, popped, was_full>>

RingInit ==
  /\ buffer = [c \in 0..(RING_SIZE - 1) |-> NoValue]
  /\ write_index = 0
  /\ read_index = 0
  /\ ring_pc = [t \in RThreads |-> "idle"]
  /\ write = [t \in RThreads |-> 0]
  /\ read = [t \in RThreads |-> 0]
  /\ value = [t \in RThreads |-> NoValue]
  /\ next_value = 1
  /\ result = [t \in RThreads |-> <<>>]
  /\ pushed = <<>>
  /\ popped = <<>>
  /\ was_full = [t \in RThreads |-> FALSE]

\* --------------------------------------------------------- TreiberStack
\* One TreiberStack<T>, the heap its nodes live in, and the threads that
\* push and pop.
NStack == 2
MaxItems == 3

SThreads == 1..NStack
StackItems == 1..MaxItems

\* ptr::null_mut(), and the addresses Box::new can return
null == 0
Addrs == 1..MaxItems

\* Node { value, next }
Node(v, n) == [value |-> v, next |-> n]

VARIABLES
  stack_head,     \* TreiberStack.head
  stack_nodes,    \* the heap: the Node at each address
  stack_alloc,    \* the addresses that hold a live Box
  stack_pc,       \* where each thread is in push() or pop()
  stack_new,      \* push(): new_node
  stack_h,        \* push(), pop(): the local head
  stack_n,        \* pop(): the local next
  stack_item,     \* the value the next push() is called with
  stack_result,   \* what the latest pop() of each thread returned
  lifo,           \* history: the values pushed and not popped, oldest first
  stack_popped    \* history: the values pop() returned

stack == <<stack_head, stack_nodes, stack_alloc, stack_pc, stack_new, stack_h,
           stack_n, stack_item, stack_result, lifo, stack_popped>>

StackInit ==
  /\ stack_head = null
  /\ stack_nodes = [a \in Addrs |-> Node(0, null)]
  /\ stack_alloc = {}
  /\ stack_pc = [t \in SThreads |-> "idle"]
  /\ stack_new = [t \in SThreads |-> null]
  /\ stack_h = [t \in SThreads |-> null]
  /\ stack_n = [t \in SThreads |-> null]
  /\ stack_item = 1
  /\ stack_result = [t \in SThreads |-> <<>>]
  /\ lifo = <<>>
  /\ stack_popped = <<>>

\* -------------------------------------------------------------- MSQueue
\* One MSQueue<T> on crossbeam_epoch: the heap its nodes live in, the
\* threads that push and pop, and the collector's epoch, pins and bags of
\* deferred destructions.
NQueue == 4
MaxQueued == 2
MaxEpoch == 3

QThreads == 1..NQueue
QAddrs == 1..(MaxQueued + 1)

\* Node { data, next }
QNode(d, n) == [data |-> d, next |-> n]

VARIABLES
  queue_head,     \* MSQueue.head
  queue_tail,     \* MSQueue.tail
  queue_nodes,    \* the heap: the Node at each address
  queue_alloc,    \* the addresses that hold a node not yet destroyed
  queue_pc,       \* where each thread is in push() or pop()
  new_node,       \* push(): new_node
  tail,           \* push(): the local tail
  head,           \* pop(): the local head
  next,           \* push(), pop(): the local next
  queue_item,     \* the value the next push() is called with
  queue_result,   \* what the latest pop() of each thread returned
  epoch,          \* crossbeam_epoch: the global epoch
  pinned,         \* crossbeam_epoch: the epoch each pinned thread is pinned
                  \* at, MaxEpoch + 1 for a thread that is not pinned
  bag,            \* crossbeam_epoch: the thread's bag of deferred nodes
  sealed,         \* crossbeam_epoch: the nodes of the bags handed to the
                  \* collector, each with the epoch its bag was sealed at
  queue_pushed,   \* history: the values linked into the queue, in order
  queue_popped    \* history: the values unlinked by pop(), in order

queue == <<queue_head, queue_tail, queue_nodes, queue_alloc, queue_pc,
           new_node, tail, head, next, queue_item, queue_result, epoch,
           pinned, bag, sealed, queue_pushed, queue_popped>>

Unpinned == MaxEpoch + 1

\* MSQueue::new(): head and tail point to one dummy node
QueueInit ==
  /\ queue_head = 1
  /\ queue_tail = 1
  /\ queue_nodes = [a \in QAddrs |-> QNode(NoValue, null)]
  /\ queue_alloc = {1}
  /\ queue_pc = [t \in QThreads |-> "idle"]
  /\ new_node = [t \in QThreads |-> null]
  /\ tail = [t \in QThreads |-> null]
  /\ head = [t \in QThreads |-> null]
  /\ next = [t \in QThreads |-> null]
  /\ queue_item = 1
  /\ queue_result = [t \in QThreads |-> <<>>]
  /\ epoch = 0
  /\ pinned = [t \in QThreads |-> Unpinned]
  /\ bag = [t \in QThreads |-> {}]
  /\ sealed = {}
  /\ queue_pushed = <<>>
  /\ queue_popped = <<>>

\* ------------------------------------------------------ epochs at the wrap
\* One slot, one retired item and the global epoch of the reclamation scheme,
\* followed over the wrap of the counter: the values the code holds, of
\* EPOCH_BITS bits, next to the number of advances each of them stands for.
MaxAdvances == EpochRange + 2

\* no epoch: the slot is not pinned, the garbage sequence holds no item
NoEpoch == 0 - 1

VARIABLES
  wrap_global,    \* GLOBAL_EBR.global_epoch
  wrap_local,     \* the slot's local_epoch
  wrap_guard,     \* Guard.epoch of the guard held, NoEpoch without a guard
  wrap_item,      \* Retired.epoch of the item, NoEpoch when there is none
  true_global,    \* history: how often the epoch has been advanced
  true_local,     \* history: the advances before the pin() of the guard
  true_item,      \* history: the advances before the pin() the item is
                  \* tagged with
  scan_result,    \* the latest scan: what the test of the code said, what
                  \* the test on the numbers of advances says, and whether
                  \* the epochs in use span less than the counter's range
  sweep_result    \* the same for the latest sweep; <<"overflow">> after the
                  \* addition of the reclaim test has overflowed

wrap == <<wrap_global, wrap_local, wrap_guard, wrap_item, true_global,
          true_local, true_item, scan_result, sweep_result>>

WrapInit ==
  /\ wrap_global = 0
  /\ wrap_local = UNPINNED_EPOCH
  /\ wrap_guard = NoEpoch
  /\ wrap_item = NoEpoch
  /\ true_global = 0
  /\ true_local = NoEpoch
  /\ true_item = NoEpoch
  /\ scan_result = <<>>
  /\ sweep_result = <<>>

\* the lock-free structures built next to the reclamation scheme, and the
\* epochs followed over the wrap
structures == <<ring, stack, queue, wrap>>

vars == <<ebr, structures>>

\* owner[i]: NoOwner, a running thread, or Gone (a thread that has finished)
NoOwner == NThreads + 1
Gone == NThreads + 2

Init ==
  /\ global_epoch = 0
  /\ active = [i \in Slots |-> FALSE]
  /\ local_epoch = [i \in Slots |-> UNPINNED_EPOCH]
  /\ epoch_lock = 0
  /\ local_data = [t \in Threads |-> None]
  /\ guards = [t \in Threads |-> <<>>]
  /\ pc = [t \in Threads |-> "idle"]
  /\ loop_i = [t \in Threads |-> 0]
  /\ pin_epoch = [t \in Threads |-> 0]
  /\ cur_epoch = [t \in Threads |-> 0]
  /\ new_epoch = [t \in Threads |-> 0]
  /\ taken = [t \in Threads |-> None]
  /\ next_obj = 1
  /\ freed = [o \in Objs |-> 0]
  /\ refs = [t \in Threads |-> <<>>]
  /\ registrations = [t \in Threads |-> 0]
  /\ owner = [i \in Slots |-> NoOwner]
  /\ last_pin = [t \in Threads |-> -1]
  /\ RingInit
  /\ StackInit
  /\ QueueInit
  /\ WrapInit

\* an object outside Objs: it is retired and freed like the others, and the
\* history keeps no count for it
Other == MaxObjs + 1

\* (r.deleter)(r.ptr)
Delete(o) == IF o \in Objs THEN [freed EXCEPT ![o] = @ + 1] ELSE freed

\* ------------------------------------------------------------------ pin()
\* pin() starts in a thread that holds fewer than MaxGuards guards. The test
\* "ld.borrow().is_none()" reads only the thread's own LOCAL_DATA, so it is
\* part of the first atomic operation that follows it.
PinEnabled(t) ==
  /\ pc[t] = "idle"
  /\ Len(guards[t]) < MaxGuards

\* mutant: a scan that found every slot taken starts over instead of giving up
RegCasRetry(t) ==
  /\ \/ pc[t] = "reg_cas"
     \/ PinEnabled(t) /\ ~local_data[t].some
  /\ LET i == loop_i[t] IN
       IF ~active[i]
         THEN /\ active' = [active EXCEPT ![i] = TRUE]
              /\ owner' = [owner EXCEPT ![i] = t]
              /\ pc' = [pc EXCEPT ![t] = "reg_init"]
              /\ UNCHANGED loop_i
         ELSE /\ UNCHANGED <<active, owner>>
              /\ loop_i' = [loop_i EXCEPT ![t] = (i + 1) % MAX_THREADS]
              /\ pc' = [pc EXCEPT ![t] = "reg_cas"]
  /\ UNCHANGED <<global_epoch, local_epoch, epoch_lock, local_data, guards,
                 pin_epoch, cur_epoch, new_epoch, taken, next_obj, freed, refs,
                 registrations, last_pin>>
  /\ UNCHANGED structures

\* mutant: pin() registers without looking at LOCAL_DATA
RegCasAlways(t) ==
  /\ \/ pc[t] = "reg_cas"
     \/ PinEnabled(t)
  /\ LET i == loop_i[t] IN
       IF ~active[i]
         THEN /\ active' = [active EXCEPT ![i] = TRUE]
              /\ owner' = [owner EXCEPT ![i] = t]
              /\ pc' = [pc EXCEPT ![t] = "reg_init"]
              /\ UNCHANGED loop_i
         ELSE /\ UNCHANGED <<active, owner>>
              /\ IF i + 1 < MAX_THREADS
                   THEN /\ loop_i' = [loop_i EXCEPT ![t] = i + 1]
                        /\ pc' = [pc EXCEPT ![t] = "reg_cas"]
                   ELSE /\ loop_i' = [loop_i EXCEPT ![t] = 0]
                        /\ pc' = [pc EXCEPT ![t] = "panicked"]
  /\ UNCHANGED <<global_epoch, local_epoch, epoch_lock, local_data, guards,
                 pin_epoch, cur_epoch, new_epoch, taken, next_obj, freed, refs,
                 registrations, last_pin>>
  /\ UNCHANGED structures

\* mutant: the slot is claimed by a plain store of true
RegCasStore(t) ==
  /\ \/ pc[t] = "reg_cas"
     \/ PinEnabled(t) /\ ~local_data[t].some
  /\ active' = [active EXCEPT ![loop_i[t]] = TRUE]
  /\ owner' = [owner EXCEPT ![loop_i[t]] = t]
  /\ pc' = [pc EXCEPT ![t] = "reg_init"]
  /\ UNCHANGED <<global_epoch, local_epoch, epoch_lock, local_data, guards,
                 loop_i, pin_epoch, cur_epoch, new_epoch, taken, next_obj,
                 freed, refs, registrations, last_pin>>
  /\ UNCHANGED structures

\* auto_register_thread(): one compare_exchange(false, true) per iteration;
\* the first one is made by a pin() that found LOCAL_DATA to be None
RegCas(t) ==
  /\ \/ pc[t] = "reg_cas"
     \/ PinEnabled(t) /\ ~local_data[t].some
  /\ LET i == loop_i[t] IN
       IF ~active[i]
         THEN /\ active' = [active EXCEPT ![i] = TRUE]
              /\ owner' = [owner EXCEPT ![i] = t]
              /\ pc' = [pc EXCEPT ![t] = "reg_init"]
              /\ UNCHANGED loop_i
         ELSE /\ UNCHANGED <<active, owner>>
              /\ IF i + 1 < MAX_THREADS
                   THEN /\ loop_i' = [loop_i EXCEPT ![t] = i + 1]
                        /\ pc' = [pc EXCEPT ![t] = "reg_cas"]
                   ELSE \* panic!("No free slot in EBR threads ...")
                        /\ loop_i' = [loop_i EXCEPT ![t] = 0]
                        /\ pc' = [pc EXCEPT ![t] = "panicked"]
  /\ UNCHANGED <<global_epoch, local_epoch, epoch_lock, local_data, guards,
                 pin_epoch, cur_epoch, new_epoch, taken, next_obj, freed, refs,
                 registrations, last_pin>>
  /\ UNCHANGED structures

\* auto_register_thread(): local_epoch.store(UNPINNED_EPOCH); LOCAL_DATA = Some(ld)
RegInit(t) ==
  /\ pc[t] = "reg_init"
  /\ local_epoch' = [local_epoch EXCEPT ![loop_i[t]] = UNPINNED_EPOCH]
  /\ local_data' = [local_data EXCEPT ![t] = Some(loop_i[t], <<>>)]
  /\ loop_i' = [loop_i EXCEPT ![t] = 0]
  /\ registrations' = [registrations EXCEPT ![t] = IF @ < 2 THEN @ + 1 ELSE @]
  /\ pc' = [pc EXCEPT ![t] = "pin_load"]
  /\ UNCHANGED <<global_epoch, active, epoch_lock, guards, pin_epoch,
                 cur_epoch, new_epoch, taken, next_obj, freed, refs, owner,
                 last_pin>>
  /\ UNCHANGED structures

\* mutant: pin() reads the global epoch only while no advancement is under way
PinLoadUnlocked(t) ==
  /\ epoch_lock = 0
  /\ \/ pc[t] = "pin_load"
     \/ PinEnabled(t) /\ local_data[t].some
  /\ pin_epoch' = [pin_epoch EXCEPT ![t] = global_epoch]
  /\ pc' = [pc EXCEPT ![t] = "pin_store"]
  /\ UNCHANGED <<shared, local_data, guards, loop_i, cur_epoch, new_epoch,
                 taken, next_obj, history>>
  /\ UNCHANGED structures

\* pin(): let global_epoch = GLOBAL_EBR.global_epoch.load(Acquire), after the
\* registration or in a thread whose LOCAL_DATA is Some
PinLoad(t) ==
  /\ \/ pc[t] = "pin_load"
     \/ PinEnabled(t) /\ local_data[t].some
  /\ pin_epoch' = [pin_epoch EXCEPT ![t] = global_epoch]
  /\ pc' = [pc EXCEPT ![t] = "pin_store"]
  /\ UNCHANGED <<shared, local_data, guards, loop_i, cur_epoch, new_epoch,
                 taken, next_obj, history>>
  /\ UNCHANGED structures

\* pin(): thr.local_epoch.store(global_epoch, Release); Guard { index, epoch }
PinStore(t) ==
  /\ pc[t] = "pin_store"
  /\ local_epoch' = [local_epoch EXCEPT ![local_data[t].index] = pin_epoch[t]]
  /\ guards' = [guards EXCEPT ![t] = Append(@, Guard(local_data[t].index, pin_epoch[t]))]
  /\ refs' = [refs EXCEPT ![t] = Append(@, {})]
  /\ last_pin' = [last_pin EXCEPT ![t] = pin_epoch[t]]
  /\ pin_epoch' = [pin_epoch EXCEPT ![t] = 0]
  /\ pc' = [pc EXCEPT ![t] = "idle"]
  /\ UNCHANGED <<global_epoch, active, epoch_lock, local_data, loop_i,
                 cur_epoch, new_epoch, taken, next_obj, freed, registrations,
                 owner>>
  /\ UNCHANGED structures

\* ------------------------------------------------------------ Guard::drop
\* mutant: the guard goes away and its slot is left as it is
DropGuardNoStore(t, k) ==
  /\ pc[t] \in {"idle", "panicked"}
  /\ k \in DOMAIN guards[t]
  /\ guards' = [guards EXCEPT ![t] = RemoveAt(@, k)]
  /\ refs' = [refs EXCEPT ![t] = RemoveAt(@, k)]
  /\ UNCHANGED <<shared, local_data, pc, locals, next_obj, freed,
                 registrations, owner, last_pin>>
  /\ UNCHANGED structures

\* A guard is dropped by its holder between operations, or while a panic
\* unwinds the holder's stack.
DropGuard(t, k) ==
  /\ pc[t] \in {"idle", "panicked"}
  /\ k \in DOMAIN guards[t]
  /\ local_epoch' = [local_epoch EXCEPT ![guards[t][k].index] = UNPINNED_EPOCH]
  /\ guards' = [guards EXCEPT ![t] = RemoveAt(@, k)]
  /\ refs' = [refs EXCEPT ![t] = RemoveAt(@, k)]
  /\ UNCHANGED <<global_epoch, active, epoch_lock, local_data, pc, locals,
                 next_obj, freed, registrations, owner, last_pin>>
  /\ UNCHANGED structures

\* --------------------------------------------------------------- retire()
\* mutant: the item goes to the front of the sequence
RetireFront(t, k) ==
  /\ pc[t] = "idle"
  /\ k \in DOMAIN guards[t]
  /\ next_obj <= MaxObjs
  /\ IF ~local_data[t].some
       THEN /\ pc' = [pc EXCEPT ![t] = "panicked"]
            /\ UNCHANGED <<local_data, next_obj, refs>>
       ELSE LET g == <<Retired(next_obj, guards[t][k].epoch)>> \o
                       local_data[t].local_garbage IN
            /\ local_data' = [local_data EXCEPT ![t].local_garbage = g]
            /\ next_obj' = next_obj + 1
            /\ refs' = [u \in Threads |->
                         IF u = t THEN refs[u]
                         ELSE [j \in DOMAIN refs[u] |-> refs[u][j] \cup {next_obj}]]
            /\ pc' = [pc EXCEPT ![t] = IF Len(g) >= GARBAGE_LIMIT
                                         THEN "adv_lock" ELSE "idle"]
  /\ UNCHANGED <<shared, guards, locals, freed, registrations, owner, last_pin>>
  /\ UNCHANGED structures

\* mutant: the attempt is made only above the high-water mark
RetireAboveMark(t, k) ==
  /\ pc[t] = "idle"
  /\ k \in DOMAIN guards[t]
  /\ next_obj <= MaxObjs
  /\ IF ~local_data[t].some
       THEN /\ pc' = [pc EXCEPT ![t] = "panicked"]
            /\ UNCHANGED <<local_data, next_obj, refs>>
       ELSE LET g == Append(local_data[t].local_garbage,
                            Retired(next_obj, guards[t][k].epoch)) IN
            /\ local_data' = [local_data EXCEPT ![t].local_garbage = g]
            /\ next_obj' = next_obj + 1
            /\ refs' = [u \in Threads |->
                         IF u = t THEN refs[u]
                         ELSE [j \in DOMAIN refs[u] |-> refs[u][j] \cup {next_obj}]]
            /\ pc' = [pc EXCEPT ![t] = IF Len(g) > GARBAGE_LIMIT
                                         THEN "adv_lock" ELSE "idle"]
  /\ UNCHANGED <<shared, guards, locals, freed, registrations, owner, last_pin>>
  /\ UNCHANGED structures

\* The caller has unlinked object next_obj; retire() tags it with guard.epoch.
\* The object was linked until now, so the holder of any guard that is live
\* in another thread may have read a pointer to it.
Retire(t, k) ==
  /\ pc[t] = "idle"
  /\ k \in DOMAIN guards[t]
  /\ next_obj <= MaxObjs
  /\ IF ~local_data[t].some
       THEN \* data.as_mut().expect("auto_register_thread failed?")
            /\ pc' = [pc EXCEPT ![t] = "panicked"]
            /\ UNCHANGED <<local_data, next_obj, refs>>
       ELSE LET g == Append(local_data[t].local_garbage,
                            Retired(next_obj, guards[t][k].epoch)) IN
            /\ local_data' = [local_data EXCEPT ![t].local_garbage = g]
            /\ next_obj' = next_obj + 1
            /\ refs' = [u \in Threads |->
                         IF u = t THEN refs[u]
                         ELSE [j \in DOMAIN refs[u] |-> refs[u][j] \cup {next_obj}]]
            /\ pc' = [pc EXCEPT ![t] = IF Len(g) >= GARBAGE_LIMIT
                                         THEN "adv_lock" ELSE "idle"]
  /\ UNCHANGED <<shared, guards, locals, freed, registrations, owner, last_pin>>
  /\ UNCHANGED structures

\* retire() of an object outside Objs, once the objects of Objs are used up.
\* The item is kept while the sequence is below the high-water mark; at the
\* mark and above, the sequence stands for one that holds more items than it
\* shows, so the call makes its advancement attempt. Below the mark the
\* sequence may stand for a longer one too, and the attempt is made or not.
RetireMore(t, k) ==
  /\ pc[t] = "idle"
  /\ k \in DOMAIN guards[t]
  /\ next_obj > MaxObjs
  /\ local_data[t].some
  /\ \E r \in Range(local_data[t].local_garbage) : r.ptr \in Objs
  /\ LET g == local_data[t].local_garbage
         h == IF Len(g) < GARBAGE_LIMIT
                THEN Append(g, Retired(Other, guards[t][k].epoch))
                ELSE g IN
       /\ local_data' = [local_data EXCEPT ![t].local_garbage = h]
       /\ \/ pc' = [pc EXCEPT ![t] = "adv_lock"]
          \/ /\ Len(h) < GARBAGE_LIMIT
             /\ UNCHANGED pc
  /\ UNCHANGED <<shared, guards, locals, next_obj, history>>
  /\ UNCHANGED structures

\* -------------------------------------------------- attempt_advance_epoch()
\* mutant: the attempt starts whether or not the lock is free
AdvLockNoWait(t) ==
  /\ pc[t] = "adv_lock"
  /\ epoch_lock' = t
  /\ cur_epoch' = [cur_epoch EXCEPT ![t] = global_epoch]
  /\ loop_i' = [loop_i EXCEPT ![t] = 0]
  /\ pc' = [pc EXCEPT ![t] = "adv_scan"]
  /\ UNCHANGED <<global_epoch, active, local_epoch, local_data, guards,
                 pin_epoch, new_epoch, taken, next_obj, history>>
  /\ UNCHANGED structures

\* let _lock = GLOBAL_EBR.epoch_lock.lock().unwrap();
\* let cur_epoch = GLOBAL_EBR.global_epoch.load(Acquire): one step, since
\* global_epoch is stored only by the holder of epoch_lock
AdvLock(t) ==
  /\ pc[t] = "adv_lock"
  /\ epoch_lock = 0
  /\ epoch_lock' = t
  /\ cur_epoch' = [cur_epoch EXCEPT ![t] = global_epoch]
  /\ loop_i' = [loop_i EXCEPT ![t] = 0]
  /\ pc' = [pc EXCEPT ![t] = "adv_scan"]
  /\ UNCHANGED <<global_epoch, active, local_epoch, local_data, guards,
                 pin_epoch, new_epoch, taken, next_obj, history>>
  /\ UNCHANGED structures

\* mutant: a slot pinned at the current epoch stops the scan too
StaleOrCurrent(i, cur) ==
  /\ local_epoch[i] # UNPINNED_EPOCH
  /\ local_epoch[i] <= cur

\* le != UNPINNED_EPOCH && le < cur_epoch
StaleEpoch(le, cur) == le # UNPINNED_EPOCH /\ le < cur

\* the test the scan makes on the local_epoch it loads from an active slot
Stale(i, cur) == StaleEpoch(local_epoch[i], cur)

\* the scan of thread t moves on to the next slot, or to the store after
\* the last one
AdvScanNext(t) ==
  IF loop_i[t] + 1 < MAX_THREADS
    THEN /\ loop_i' = [loop_i EXCEPT ![t] = @ + 1]
         /\ pc' = [pc EXCEPT ![t] = "adv_scan"]
    ELSE /\ loop_i' = [loop_i EXCEPT ![t] = 0]
         /\ pc' = [pc EXCEPT ![t] = "adv_store"]

\* mutant: the scan looks at the local_epoch of inactive slots too
AdvScanAllSlots(t) ==
  /\ pc[t] = "adv_scan"
  /\ pc' = [pc EXCEPT ![t] = "adv_epoch"]
  /\ UNCHANGED <<shared, local_data, guards, loop_i, pin_epoch, cur_epoch,
                 new_epoch, taken, next_obj, history>>
  /\ UNCHANGED structures

\* one iteration of "for i in 0..MAX_THREADS": thr.active.load(Relaxed)
AdvScan(t) ==
  /\ pc[t] = "adv_scan"
  /\ IF active[loop_i[t]]
       THEN /\ pc' = [pc EXCEPT ![t] = "adv_epoch"]
            /\ UNCHANGED loop_i
       ELSE AdvScanNext(t)
  /\ UNCHANGED <<shared, local_data, guards, pin_epoch, cur_epoch, new_epoch,
                 taken, next_obj, history>>
  /\ UNCHANGED structures

\* mutant: the scan goes on past a slot pinned at a stale epoch
AdvScanNoAbort(t) ==
  /\ pc[t] = "adv_epoch"
  /\ AdvScanNext(t)
  /\ UNCHANGED <<shared, local_data, guards, pin_epoch, cur_epoch, new_epoch,
                 taken, next_obj, history>>
  /\ UNCHANGED structures

\* the iteration on a slot that read active: thr.local_epoch.load(Acquire)
\* and the test that ends the attempt
AdvScanEpoch(t) ==
  /\ pc[t] = "adv_epoch"
  /\ IF Stale(loop_i[t], cur_epoch[t])
       THEN /\ pc' = [pc EXCEPT ![t] = "adv_unlock"]
            /\ loop_i' = [loop_i EXCEPT ![t] = 0]
       ELSE AdvScanNext(t)
  /\ UNCHANGED <<shared, local_data, guards, pin_epoch, cur_epoch, new_epoch,
                 taken, next_obj, history>>
  /\ UNCHANGED structures

\* new_epoch = cur_epoch.wrapping_add(1); global_epoch.store(new_epoch, Release)
AdvStore(t) ==
  /\ pc[t] = "adv_store"
  /\ global_epoch' = wrapping_add(cur_epoch[t], 1)
  /\ new_epoch' = [new_epoch EXCEPT ![t] = wrapping_add(cur_epoch[t], 1)]
  /\ UNCHANGED loop_i
  /\ pc' = [pc EXCEPT ![t] = "adv_sweep"]
  /\ UNCHANGED <<active, local_epoch, epoch_lock, local_data, guards,
                 pin_epoch, cur_epoch, taken, next_obj, history>>
  /\ UNCHANGED structures

\* mutant: the sweep reclaims the items one epoch behind the new epoch too
ExpiredOneBehind(r, new) == r.epoch < new

\* the reclaim test of the sweep, "epoch + 1 < new_epoch" on usize: the
\* addition wraps in a build without overflow checks
Expired(r, new) == wrapping_add(r.epoch, 1) < new

\* index (from 1) of the first item the sweep reclaims, 0 when it reclaims none
FirstExpired(g, new) ==
  IF \E j \in 1..Len(g) : Expired(g[j], new)
    THEN CHOOSE j \in 1..Len(g) :
           /\ Expired(g[j], new)
           /\ \A h \in 1..(j - 1) : ~Expired(g[h], new)
    ELSE 0

\* mutant: the deleter is invoked and the item stays in the sequence
AdvSweepKeepsItem(t) ==
  /\ pc[t] = "adv_sweep"
  /\ LET g == local_data[t].local_garbage
         j == FirstExpired(g, new_epoch[t]) IN
       /\ j # 0
       /\ freed' = Delete(g[j].ptr)
  /\ UNCHANGED <<shared, local_data, guards, pc, locals, next_obj, refs,
                 registrations, owner, last_pin>>
  /\ UNCHANGED structures

\* mutant: the sweep goes through the garbage sequences of all threads
AdvSweepAllThreads(t) ==
  /\ pc[t] = "adv_sweep"
  /\ \E u \in Threads :
       LET g == local_data[u].local_garbage
           j == FirstExpired(g, new_epoch[t]) IN
         /\ j # 0
         /\ local_data' = [local_data EXCEPT ![u].local_garbage = RemoveAt(g, j)]
         /\ freed' = Delete(g[j].ptr)
  /\ UNCHANGED <<shared, guards, pc, locals, next_obj, refs, registrations,
                 owner, last_pin>>
  /\ UNCHANGED structures

\* "while i < ld.local_garbage.len()": the iterations up to and including the
\* next remove(i) and deleter call are one step (the ones that only do i += 1
\* touch nothing but the thread's own i)
AdvSweep(t) ==
  /\ pc[t] = "adv_sweep"
  /\ LET g == local_data[t].local_garbage
         j == FirstExpired(g, new_epoch[t]) IN
       /\ j # 0
       /\ local_data' = [local_data EXCEPT ![t].local_garbage = RemoveAt(g, j)]
       /\ freed' = Delete(g[j].ptr)
  /\ UNCHANGED <<shared, guards, pc, locals, next_obj, refs, registrations,
                 owner, last_pin>>
  /\ UNCHANGED structures

\* mutant: the attempt returns and the lock stays taken
AdvUnlockKeepsLock(t) ==
  /\ \/ pc[t] = "adv_unlock"
     \/ /\ pc[t] = "adv_sweep"
        /\ FirstExpired(local_data[t].local_garbage, new_epoch[t]) = 0
  /\ cur_epoch' = [cur_epoch EXCEPT ![t] = 0]
  /\ new_epoch' = [new_epoch EXCEPT ![t] = 0]
  /\ pc' = [pc EXCEPT ![t] = "idle"]
  /\ UNCHANGED <<global_epoch, active, local_epoch, epoch_lock, local_data,
                 guards, loop_i, pin_epoch, taken, next_obj, history>>
  /\ UNCHANGED structures

\* _lock goes out of scope: on the early return of the scan, or when the
\* sweep has no item left to reclaim
AdvUnlock(t) ==
  /\ \/ pc[t] = "adv_unlock"
     \/ /\ pc[t] = "adv_sweep"
        /\ FirstExpired(local_data[t].local_garbage, new_epoch[t]) = 0
  /\ epoch_lock' = 0
  /\ cur_epoch' = [cur_epoch EXCEPT ![t] = 0]
  /\ new_epoch' = [new_epoch EXCEPT ![t] = 0]
  /\ pc' = [pc EXCEPT ![t] = "idle"]
  /\ UNCHANGED <<global_epoch, active, local_epoch, local_data, guards,
                 loop_i, pin_epoch, taken, next_obj, history>>
  /\ UNCHANGED structures

\* ------------------------------------------------------ unregister_thread()
\* ld.borrow_mut().take() leaves None in LOCAL_DATA: when it held None
\* nothing else happens; otherwise thr.active.store(false, Release)
UnregActive(t) ==
  /\ pc[t] = "idle"
  /\ IF local_data[t].some
       THEN /\ taken' = [taken EXCEPT ![t] = local_data[t]]
            /\ local_data' = [local_data EXCEPT ![t] = None]
            /\ active' = [active EXCEPT ![local_data[t].index] = FALSE]
            /\ owner' = [owner EXCEPT ![local_data[t].index] = NoOwner]
            /\ pc' = [pc EXCEPT ![t] = "unreg_epoch"]
       ELSE UNCHANGED <<taken, local_data, active, owner, pc>>
  /\ UNCHANGED <<global_epoch, local_epoch, epoch_lock, guards, loop_i,
                 pin_epoch, cur_epoch, new_epoch, next_obj, freed, refs,
                 registrations, last_pin>>
  /\ UNCHANGED structures

\* what unregister_thread() does once local_garbage is empty: data is dropped
UnregReturn(t, g) ==
  /\ taken' = [taken EXCEPT ![t] = IF g = <<>> THEN None
                                    ELSE [@ EXCEPT !.local_garbage = g]]
  /\ pc' = [pc EXCEPT ![t] = IF g = <<>> THEN "idle" ELSE "unreg_drain"]

\* thr.local_epoch.store(UNPINNED_EPOCH, Release)
UnregEpoch(t) ==
  /\ pc[t] = "unreg_epoch"
  /\ local_epoch' = [local_epoch EXCEPT ![taken[t].index] = UNPINNED_EPOCH]
  /\ UnregReturn(t, taken[t].local_garbage)
  /\ UNCHANGED <<global_epoch, active, epoch_lock, local_data, guards,
                 loop_i, pin_epoch, cur_epoch, new_epoch, next_obj, history>>
  /\ UNCHANGED structures

\* mutant: the drain applies the two-generation test of the sweep and drops
\* the items that fail it without invoking their deleters
UnregDrainExpiredOnly(t) ==
  /\ pc[t] = "unreg_drain"
  /\ freed' = IF Expired(Head(taken[t].local_garbage), global_epoch)
                THEN Delete(Head(taken[t].local_garbage).ptr)
                ELSE freed
  /\ UnregReturn(t, Tail(taken[t].local_garbage))
  /\ UNCHANGED <<shared, local_data, guards, loop_i, pin_epoch, cur_epoch,
                 new_epoch, next_obj, refs, registrations, owner, last_pin>>
  /\ UNCHANGED structures

\* one iteration of "while let Some(r) = data.local_garbage.pop_front()"
UnregDrain(t) ==
  /\ pc[t] = "unreg_drain"
  /\ freed' = Delete(Head(taken[t].local_garbage).ptr)
  /\ UnregReturn(t, Tail(taken[t].local_garbage))
  /\ UNCHANGED <<shared, local_data, guards, loop_i, pin_epoch, cur_epoch,
                 new_epoch, next_obj, refs, registrations, owner, last_pin>>
  /\ UNCHANGED structures

\* ---------------------------------------------------------- thread lifetime
\* The thread's closure returns: its thread_local LOCAL_DATA is destroyed.
\* Retired has no Drop, so the deleters of the items left are not invoked,
\* and nothing resets the slot.
Exit(t) ==
  /\ pc[t] = "idle"
  /\ guards[t] = <<>>
  /\ local_data' = [local_data EXCEPT ![t] = None]
  /\ owner' = IF local_data[t].some
                THEN [owner EXCEPT ![local_data[t].index] = Gone]
                ELSE owner
  /\ pc' = [pc EXCEPT ![t] = "done"]
  /\ UNCHANGED <<shared, guards, locals, next_obj, freed, refs, registrations,
                 last_pin>>
  /\ UNCHANGED structures

\* A new thread starts under the identity of one that has finished.
Spawn(t) ==
  /\ pc[t] = "done"
  /\ pc' = [pc EXCEPT ![t] = "idle"]
  /\ registrations' = [registrations EXCEPT ![t] = 0]
  /\ last_pin' = [last_pin EXCEPT ![t] = -1]
  /\ UNCHANGED <<shared, local_data, guards, locals, next_obj, freed, refs,
                 owner>>
  /\ UNCHANGED structures

\* ------------------------------------------------------------- behaviours
\* pin(), the release of a guard, retire() and its advancement attempt
Access(t) ==
  \/ RegCas(t)
  \/ RegInit(t)
  \/ PinLoad(t)
  \/ PinStore(t)
  \/ \E k \in 1..MaxGuards : DropGuard(t, k)
  \/ \E k \in 1..MaxGuards : Retire(t, k)
  \/ AdvLock(t)
  \/ AdvScan(t)
  \/ AdvScanEpoch(t)
  \/ AdvStore(t)
  \/ AdvSweep(t)
  \/ AdvUnlock(t)

\* unregister_thread(), and the end and the start of a thread
Lifetime(t) ==
  \/ UnregActive(t)
  \/ UnregEpoch(t)
  \/ UnregDrain(t)
  \/ Exit(t)
  \/ Spawn(t)

Next == \E t \in Threads : Access(t) \/ Lifetime(t)

Spec == Init /\ [][Next]_vars

\* Threads that pin, retire and release their guards, and neither unregister
\* nor finish.
NextAccess == \E t \in Threads : Access(t)

SpecAccess == Init /\ [][NextAccess]_vars

\* One thread, Retirer, goes on retiring after the objects of Objs are used
\* up, for as long as one of them waits in its garbage sequence; the other
\* threads retire objects of Objs only.
Retirer == CHOOSE t \in Threads : \A u \in Threads : t <= u

NextRetiring ==
  \/ \E t \in Threads : Access(t)
  \/ \E k \in 1..MaxGuards : RetireMore(Retirer, k)

\* A call that has started runs to its end; Retirer pins again when it holds
\* no guard, and retires again and again.
FairRetiring ==
  /\ \A t \in Threads : WF_vars(pc[t] # "idle" /\ Access(t))
  /\ WF_vars(RegCas(Retirer) \/ PinLoad(Retirer))
  /\ SF_vars(\E k \in 1..MaxGuards : Retire(Retirer, k) \/ RetireMore(Retirer, k))

SpecRetiring == Init /\ [][NextRetiring]_vars /\ FairRetiring

\* ------------------------------------------------------ epochs at the wrap
\* pin() and Guard::drop, retire() and attempt_advance_epoch() of one thread,
\* each call as one step, with the numbers of advances kept next to the
\* epochs. The garbage sequence stands for one at the high-water mark, of
\* which one item is followed.
WrapRunning == sweep_result # <<"overflow">>

\* the epochs in use (of the guard, of the item) span less than the range
\* of the counter
InWindow ==
  /\ true_local # NoEpoch => true_global - true_local < EpochRange - 1
  /\ true_item # NoEpoch => true_global - true_item < EpochRange - 1

\* pin(): local_epoch.store(global_epoch); Guard { index, epoch: global_epoch }
WrapPin ==
  /\ WrapRunning
  /\ wrap_guard = NoEpoch
  /\ wrap_local' = wrap_global
  /\ wrap_guard' = wrap_global
  /\ true_local' = true_global
  /\ UNCHANGED <<wrap_global, wrap_item, true_global, true_item, scan_result,
                 sweep_result>>
  /\ UNCHANGED <<ebr, ring, stack, queue>>

\* Guard::drop: local_epoch.store(UNPINNED_EPOCH)
WrapDrop ==
  /\ WrapRunning
  /\ wrap_guard # NoEpoch
  /\ wrap_local' = UNPINNED_EPOCH
  /\ wrap_guard' = NoEpoch
  /\ true_local' = NoEpoch
  /\ UNCHANGED <<wrap_global, wrap_item, true_global, true_item, scan_result,
                 sweep_result>>
  /\ UNCHANGED <<ebr, ring, stack, queue>>

\* retire(): Retired { epoch: guard.epoch }
WrapRetire ==
  /\ WrapRunning
  /\ wrap_guard # NoEpoch
  /\ wrap_item = NoEpoch
  /\ wrap_item' = wrap_guard
  /\ true_item' = true_local
  /\ UNCHANGED <<wrap_global, wrap_local, wrap_guard, true_global, true_local,
                 scan_result, sweep_result>>
  /\ UNCHANGED <<ebr, ring, stack, queue>>

\* attempt_advance_epoch(): the scan of the slot, and after a scan that
\* found nothing stale the store of cur_epoch.wrapping_add(1) and the sweep
WrapAttempt ==
  /\ WrapRunning
  /\ true_global < MaxAdvances
  /\ LET cur == wrap_global
         new == wrapping_add(cur, 1)
         stale == StaleEpoch(wrap_local, cur)
         reclaim == Expired(Retired(Other, wrap_item), new) IN
       /\ scan_result' = <<stale,
                           true_local # NoEpoch /\ true_local < true_global,
                           InWindow>>
       /\ IF stale
            THEN UNCHANGED <<wrap_global, wrap_item, true_global, true_item,
                             sweep_result>>
            ELSE /\ wrap_global' = new
                 /\ true_global' = true_global + 1
                 /\ IF wrap_item = NoEpoch
                      THEN UNCHANGED <<wrap_item, true_item, sweep_result>>
                      ELSE /\ sweep_result' = <<reclaim,
                                                true_item + 1 < true_global + 1,
                                                InWindow>>
                           /\ wrap_item' = IF reclaim THEN NoEpoch ELSE wrap_item
                           /\ true_item' = IF reclaim THEN NoEpoch ELSE true_item
  /\ UNCHANGED <<wrap_local, wrap_guard, true_local>>
  /\ UNCHANGED <<ebr, ring, stack, queue>>

\* the same attempt in a build with overflow checks, on an item tagged
\* usize::MAX: "epoch + 1" panics after the store of the new epoch
WrapAttemptOverflows ==
  /\ WrapRunning
  /\ true_global < MaxAdvances
  /\ ~StaleEpoch(wrap_local, wrap_global)
  /\ wrap_item = UNPINNED_EPOCH
  /\ scan_result' = <<FALSE,
                      true_local # NoEpoch /\ true_local < true_global,
                      InWindow>>
  /\ wrap_global' = wrapping_add(wrap_global, 1)
  /\ true_global' = true_global + 1
  /\ sweep_result' = <<"overflow">>
  /\ UNCHANGED <<wrap_local, wrap_guard, wrap_item, true_local, true_item>>
  /\ UNCHANGED <<ebr, ring, stack, queue>>

NextWrap ==
  \/ WrapPin
  \/ WrapDrop
  \/ WrapRetire
  \/ WrapAttempt
  \/ WrapAttemptOverflows

SpecWrap == Init /\ [][NextWrap]_vars

\* ===================================================================
\* Properties
\* ===================================================================
\* the garbage sequence a thread holds: in LOCAL_DATA, or in the data that
\* unregister_thread() took out of it
Garbage(t) == local_data[t].local_garbage \o taken[t].local_garbage

Items == UNION {Range(Garbage(t)) : t \in Threads}

InGarbage(o) == \E r \in Items : r.ptr = o

\* the deleter of o is invoked in this step
Freeing(o) == freed'[o] # freed[o]

\* some registered thread is pinned at an epoch <= e
PinnedAtOrBefore(e) ==
  \E i \in Slots :
    /\ active[i]
    /\ local_epoch[i] # UNPINNED_EPOCH
    /\ local_epoch[i] <= e

\* C1: no premature reclamation. No step invokes the deleter of an object
\* retired at epoch E while a registered thread is pinned with
\* local_epoch <= E.
C1_NoPrematureFree ==
  [][\A r \in Items : Freeing(r.ptr) => ~PinnedAtOrBefore(r.epoch)]_vars

\* thread t holds a live guard that was live when another thread unlinked
\* and retired object o
Holds(t, o) == \E k \in DOMAIN refs[t] : o \in refs[t][k]

\* C2: an object that was still linked while a thread held a guard, and that
\* a second thread has unlinked and retired since, is not freed by the
\* advancement pass of the second thread while that guard is live.
C2_GuardedObjectNotFreed ==
  [][\A u \in Threads : \A r \in Range(local_data[u].local_garbage) :
       (pc[u] = "adv_sweep" /\ Freeing(r.ptr)) =>
         \A t \in Threads \ {u} : ~Holds(t, r.ptr)]_vars

\* C3: at-most-once free. The deleter of an object is invoked only while the
\* object is in a garbage sequence and was never freed before, and the same
\* step takes the object out of the sequence.
C3_AtMostOnceFree ==
  [][\A o \in Objs :
       Freeing(o) => /\ freed[o] = 0
                     /\ freed'[o] = 1
                     /\ InGarbage(o)
                     /\ ~InGarbage(o)']_vars

\* C3 happens: one thread is in its advancement sweep and another in its
\* unregister drain, and both have freed an object
C3_Witness ==
  /\ \E t \in Threads : pc[t] = "adv_sweep"
  /\ \E t \in Threads : pc[t] = "unreg_drain"
  /\ Cardinality({o \in Objs : freed[o] = 1}) >= 2

\* thread t holds no guard infinitely often: it does not stay pinned
Unpins(t) == []<>(guards[t] = <<>>)

\* every object of Objs that waits in Retirer's garbage sequence is freed
Reclaimed ==
  \A o \in Objs :
    (\E r \in Range(local_data[Retirer].local_garbage) : r.ptr = o)
      ~> (freed[o] = 1)

AllFinished ==
  \A t \in Threads : pc[t] \in {"done", "panicked"} /\ guards[t] = <<>>

\* C4: once all threads have finished, the deleter of every retired object
\* has fired exactly once.
C4_AllFreedAfterJoin ==
  AllFinished => \A o \in 1..(next_obj - 1) : freed[o] = 1

\* C6: while a guard exists, the slot it names is pinned.
C6_GuardImpliesPinned ==
  \A t \in Threads : \A k \in DOMAIN guards[t] :
    local_epoch[guards[t][k].index] # UNPINNED_EPOCH

\* thread t drops its guard k in this step
Dropping(t, k) ==
  /\ k \in DOMAIN guards[t]
  /\ guards'[t] = RemoveAt(guards[t], k)

\* C7: the step that releases a guard leaves UNPINNED_EPOCH in the slot the
\* guard names.
C7_ReleaseUnpins ==
  [][\A t \in Threads : \A k \in 1..MaxGuards :
       Dropping(t, k) => local_epoch'[guards[t][k].index] = UNPINNED_EPOCH]_vars

\* C7 happens: a registered thread that has pinned holds no guard any more,
\* and its slot reads UNPINNED_EPOCH
C7_Witness ==
  \E t \in Threads :
    /\ last_pin[t] >= 0
    /\ guards[t] = <<>>
    /\ pc[t] = "idle"
    /\ local_data[t].some
    /\ local_epoch[local_data[t].index] = UNPINNED_EPOCH

\* thread t's pin() returns its guard in this step
PinReturns(t) == pc[t] = "pin_store" /\ pc'[t] = "idle"

\* C8: the epoch of the guard a pin() returns is at least the epoch of the
\* guard the same thread obtained before.
C8_PinEpochMonotone ==
  [][\A t \in Threads :
       PinReturns(t) => /\ Len(guards'[t]) = Len(guards[t]) + 1
                        /\ guards'[t][Len(guards'[t])].epoch >= last_pin[t]]_vars

\* C8 happens: a thread that has pinned before is about to publish a later
\* epoch
C8_Witness ==
  \E t \in Threads :
    /\ pc[t] = "pin_store"
    /\ last_pin[t] >= 0
    /\ pin_epoch[t] > last_pin[t]

\* unregister_thread() of thread t returns in this step
UnregReturns(t) == pc[t] \in {"unreg_epoch", "unreg_drain"} /\ pc'[t] = "idle"

\* C9 (as stated): when unregister_thread() returns, the thread's garbage
\* sequence is empty and the slot it held is inactive.
C9_DrainedAndInactive ==
  [][\A t \in Threads :
       UnregReturns(t) => /\ Garbage(t)' = <<>>
                          /\ ~active'[taken[t].index]]_vars

\* C9 (amended): when unregister_thread() returns, the thread's garbage
\* sequence is empty, every item the call found in it has been freed, the
\* thread holds no slot, and the slot it held is inactive unless the
\* registration of another thread has claimed it since.
C9_DrainedAndReleased ==
  [][\A t \in Threads :
       UnregReturns(t) =>
         /\ Garbage(t)' = <<>>
         /\ ~local_data'[t].some
         /\ \A r \in Range(Garbage(t)) : freed'[r.ptr] = 1
         /\ \A i \in Slots : owner'[i] # t
         /\ \/ ~active'[taken[t].index]
            \/ owner'[taken[t].index] \notin {NoOwner, t}]_vars

\* C9 happens: a thread is in its drain with an item that no advancement
\* pass would reclaim yet
C9_Witness ==
  \E t \in Threads :
    /\ pc[t] = "unreg_drain"
    /\ \E r \in Range(taken[t].local_garbage) : r.epoch + 1 >= global_epoch
    /\ ~active[taken[t].index]

\* C10 (as stated): a registry slot is claimed for a thread at most once in
\* the thread's lifetime.
C10_RegisteredOnce ==
  \A t \in Threads : registrations[t] <= 1

\* thread t claims slot i in this step
Claims(t, i) == ~active[i] /\ active'[i] /\ owner'[i] = t

\* thread t starts a pin() in this step
PinStarts(t) == pc[t] = "idle" /\ pc'[t] \in {"reg_cas", "reg_init", "pin_store"}

\* C10 (amended): a slot is claimed for a thread only by a pin() made while
\* the thread has no cached slot (its first pin, or the first pin after
\* unregister_thread()), so a thread holds at most one slot at a time; a
\* pin() of a thread that has a cached slot claims nothing and its guard
\* names the cached slot.
C10_RegisteredOncePerContext ==
  [][\A t \in Threads :
       /\ \A i \in Slots :
            Claims(t, i) => /\ ~local_data[t].some
                            /\ \A j \in Slots : owner[j] # t
       /\ (PinStarts(t) /\ local_data[t].some) =>
            /\ pc'[t] = "pin_store"
            /\ active' = active
       /\ PinReturns(t) =>
            guards'[t][Len(guards'[t])].index = local_data[t].index]_vars

\* C10 happens: a thread that registered, unregistered and registered again
\* starts a pin() with its cached slot
C10_Witness ==
  \E t \in Threads :
    /\ registrations[t] = 2
    /\ local_data[t].some
    /\ last_pin[t] >= 0
    /\ guards[t] = <<>>
    /\ pc[t] = "pin_store"

\* thread t is inside a pin(): it scans for a slot, initialises it, or has
\* loaded the global epoch and not yet published it
InPin(t) == pc[t] \in {"reg_cas", "reg_init", "pin_load", "pin_store"}

\* the step of pin() that thread t takes next
PinStep(t) == RegCas(t) \/ RegInit(t) \/ PinLoad(t) \/ PinStore(t)

\* the registration of thread t gives up in this step
PinPanics(t) == pc[t] = "reg_cas" /\ pc'[t] = "panicked"

\* a compare_exchange of the scan of thread t fails in this step
ScanFails(t) == /\ pc[t] = "reg_cas" \/ (PinEnabled(t) /\ ~local_data[t].some)
                /\ pc'[t] \in {"reg_cas", "panicked"}
                /\ <<pc'[t], loop_i'[t]>> # <<pc[t], loop_i[t]>>

InCall(t) == pc[t] \notin {"idle", "done", "panicked"}

\* the step thread t takes next
Step(t) == Access(t) \/ Lifetime(t)

\* another thread is inside an advancement attempt and holds the lock
LockHeldByOther(t) == epoch_lock \notin {0, t}

\* C12: while another thread holds the advancement lock, thread t can take
\* the next step of the call it is in, and can start and take the step of a
\* pin(), a guard release or a retire().
C12_LockBlocksNoCall ==
  \A t \in Threads :
    LockHeldByOther(t) =>
      /\ InCall(t) => ENABLED Step(t)
      /\ PinEnabled(t) => ENABLED PinStep(t)
      /\ pc[t] = "idle" =>
           \A k \in DOMAIN guards[t] :
             /\ ENABLED DropGuard(t, k)
             /\ next_obj <= MaxObjs => ENABLED Retire(t, k)

\* retire() of thread t appends its item in this step
Retires(t) ==
  /\ local_data[t].some /\ local_data'[t].some
  /\ Len(local_data'[t].local_garbage) > Len(local_data[t].local_garbage)

\* C12 (amended): the advancement lock blocks nothing but the advancement
\* attempts of other threads. While another thread holds the lock, a pin(),
\* a guard release and the append of a retire() take their steps; a retire()
\* that stays below the high-water mark returns with its append and never
\* touches the lock; the one step that waits is the lock acquisition of a
\* retire() that has reached the high-water mark.
C12_LockBlocksOnlyAdvancement ==
  /\ [](\A t \in Threads :
          /\ LockHeldByOther(t) =>
                /\ InPin(t) \/ PinEnabled(t) => ENABLED PinStep(t)
                /\ pc[t] = "idle" =>
                     \A k \in DOMAIN guards[t] :
                       /\ ENABLED DropGuard(t, k)
                       /\ next_obj <= MaxObjs => ENABLED Retire(t, k)
          /\ InCall(t) /\ ~ENABLED Step(t) =>
                pc[t] = "adv_lock" /\ LockHeldByOther(t))
  /\ [][\A t \in Threads :
          Retires(t) =>
            /\ UNCHANGED epoch_lock
            /\ pc'[t] = IF Len(local_data'[t].local_garbage) >= GARBAGE_LIMIT
                          THEN "adv_lock" ELSE "idle"]_vars

\* C12 happens: one thread holds the lock in the middle of its scan while
\* the other, below the high-water mark, has a guard and garbage of its own
C12_Witness ==
  \E t, u \in Threads :
    /\ epoch_lock = u /\ u # t
    /\ pc[u] = "adv_scan"
    /\ pc[t] = "idle"
    /\ guards[t] # <<>>
    /\ local_data[t].some
    /\ Len(local_data[t].local_garbage) = 1

\* Fair scheduling: a thread inside a call goes on taking its steps, and a
\* thread that waits for the advancement lock gets it if the lock is free
\* again and again.
FairCalls ==
  \A t \in Threads : /\ WF_vars(InCall(t) /\ Step(t))
                     /\ SF_vars(AdvLock(t))

\* The threads pin, retire, exit and are replaced by new threads, and one of
\* them calls unregister_thread() too.
NextFair ==
  \/ \E t \in Threads : Access(t) \/ Exit(t) \/ Spawn(t)
  \/ UnregActive(Retirer) \/ UnregEpoch(Retirer) \/ UnregDrain(Retirer)

SpecFair == Init /\ [][NextFair]_vars /\ FairCalls

\* every call that has started comes to its end: it returns or it panics
CallsEnd == \A t \in Threads : InCall(t) ~> pc[t] \in {"idle", "panicked"}

\* the advancement lock, once taken, is released
LockReleased == \A t \in Threads : (epoch_lock = t) ~> (epoch_lock = 0)

\* a call of thread t panics in this step
Panics(t) == pc[t] # "panicked" /\ pc'[t] = "panicked"

\* the retire() of a thread without LOCAL_DATA panics in this step
RetirePanics(t) ==
  /\ pc[t] = "idle" /\ pc'[t] = "panicked"
  /\ ~local_data[t].some
  /\ guards[t] # <<>>

Unread == write_index - read_index

\* the history of full buffers over a step in which the threads of S begin
\* a call
NoteFull(S) ==
  was_full' = [u \in RThreads |->
                 \/ was_full[u] /\ u \notin S
                 \/ u \in S /\ Unread >= RING_SIZE
                 \/ Unread' >= RING_SIZE]

\* push(): let write = self.write_index.load(Acquire), at the call (with the
\* next value) and at each turn of the loop
RingPushLoadWrite(t) ==
  /\ \/ /\ ring_pc[t] = "idle"
        /\ next_value <= MaxPushes
        /\ value' = [value EXCEPT ![t] = SomeValue(next_value)]
        /\ next_value' = next_value + 1
     \/ /\ ring_pc[t] = "push_write"
        /\ UNCHANGED <<value, next_value>>
  /\ write' = [write EXCEPT ![t] = write_index]
  /\ result' = [result EXCEPT ![t] = <<>>]
  /\ ring_pc' = [ring_pc EXCEPT ![t] = "push_read"]
  /\ UNCHANGED <<buffer, write_index, read_index, read, pushed, popped>>
  /\ NoteFull(IF ring_pc[t] = "idle" THEN {t} ELSE {})
  /\ UNCHANGED <<ebr, stack, queue, wrap>>

\* push(): let read = self.read_index.load(Acquire);
\* if write - read >= self.size { return Err(value) }. When read is ahead of
\* the write loaded before it, the subtraction overflows: it panics where
\* overflow checks are on and wraps to a large number where they are off.
RingPushLoadRead(t) ==
  /\ ring_pc[t] = "push_read"
  /\ read' = [read EXCEPT ![t] = read_index]
  /\ \/ /\ write[t] >= read_index
        /\ IF write[t] - read_index >= RING_SIZE
             THEN /\ result' = [result EXCEPT ![t] = <<"Err", value[t][1]>>]
                  /\ value' = [value EXCEPT ![t] = NoValue]
                  /\ ring_pc' = [ring_pc EXCEPT ![t] = "idle"]
             ELSE /\ ring_pc' = [ring_pc EXCEPT ![t] = "push_cas"]
                  /\ UNCHANGED <<result, value>>
     \/ /\ write[t] < read_index
        /\ result' = [result EXCEPT ![t] = <<"Err", value[t][1]>>]
        /\ value' = [value EXCEPT ![t] = NoValue]
        /\ ring_pc' = [ring_pc EXCEPT ![t] = "idle"]
     \/ /\ write[t] < read_index
        /\ ring_pc' = [ring_pc EXCEPT ![t] = "panicked"]
        /\ UNCHANGED <<result, value>>
  /\ UNCHANGED <<buffer, write_index, read_index, write, next_value, pushed,
                 popped>>
  /\ NoteFull({})
  /\ UNCHANGED <<ebr, stack, queue, wrap>>

\* push(): write_index.compare_exchange_weak(write, write + 1) succeeds
RingPushCas(t) ==
  /\ ring_pc[t] = "push_cas"
  /\ write_index = write[t]
  /\ write_index' = write[t] + 1
  /\ ring_pc' = [ring_pc EXCEPT ![t] = "push_store"]
  /\ UNCHANGED <<buffer, read_index, write, read, value, next_value, result,
                 pushed, popped>>
  /\ NoteFull({})
  /\ UNCHANGED <<ebr, stack, queue, wrap>>

\* push(): the compare-exchange fails, and the loop takes another turn
RingPushCasFails(t) ==
  /\ ring_pc[t] = "push_cas"
  /\ ring_pc' = [ring_pc EXCEPT ![t] = "push_write"]
  /\ UNCHANGED <<buffer, write_index, read_index, write, read, value,
                 next_value, result, pushed, popped>>
  /\ NoteFull({})
  /\ UNCHANGED <<ebr, stack, queue, wrap>>

\* push(): *slot = Some(value); return Ok(())
RingPushStore(t) ==
  /\ ring_pc[t] = "push_store"
  /\ buffer' = [buffer EXCEPT ![write[t] % RING_SIZE] = value[t]]
  /\ pushed' = Append(pushed, value[t][1])
  /\ result' = [result EXCEPT ![t] = <<"Ok">>]
  /\ value' = [value EXCEPT ![t] = NoValue]
  /\ ring_pc' = [ring_pc EXCEPT ![t] = "idle"]
  /\ UNCHANGED <<write_index, read_index, write, read, next_value, popped>>
  /\ NoteFull({})
  /\ UNCHANGED <<ebr, stack, queue, wrap>>

\* ------------------------------------------------------- RingBuffer::pop
\* pop(): let read = self.read_index.load(Acquire), at the call and at each
\* turn of the loop
RingPopLoadRead(t) ==
  /\ ring_pc[t] \in {"idle", "pop_read"}
  /\ read' = [read EXCEPT ![t] = read_index]
  /\ result' = [result EXCEPT ![t] = <<>>]
  /\ ring_pc' = [ring_pc EXCEPT ![t] = "pop_write"]
  /\ UNCHANGED <<buffer, write_index, read_index, write, value, next_value,
                 pushed, popped>>
  /\ NoteFull(IF ring_pc[t] = "idle" THEN {t} ELSE {})
  /\ UNCHANGED <<ebr, stack, queue, wrap>>

\* pop(): let write = self.write_index.load(Acquire);
\* if read == write { return None }
RingPopLoadWrite(t) ==
  /\ ring_pc[t] = "pop_write"
  /\ write' = [write EXCEPT ![t] = write_index]
  /\ IF read[t] = write_index
       THEN /\ result' = [result EXCEPT ![t] = <<"None">>]
            /\ ring_pc' = [ring_pc EXCEPT ![t] = "idle"]
       ELSE /\ ring_pc' = [ring_pc EXCEPT ![t] = "pop_take"]
            /\ UNCHANGED result
  /\ UNCHANGED <<buffer, write_index, read_index, read, value, next_value,
                 pushed, popped>>
  /\ NoteFull({})
  /\ UNCHANGED <<ebr, stack, queue, wrap>>

\* pop(): (*cell.get()).take(), its read of the cell
RingPopTakeRead(t) ==
  /\ ring_pc[t] = "pop_take"
  /\ value' = [value EXCEPT ![t] = buffer[read[t] % RING_SIZE]]
  /\ ring_pc' = [ring_pc EXCEPT ![t] = "pop_take_write"]
  /\ UNCHANGED <<buffer, write_index, read_index, write, read, next_value,
                 result, pushed, popped>>
  /\ NoteFull({})
  /\ UNCHANGED <<ebr, stack, queue, wrap>>

\* pop(): (*cell.get()).take(), its write of None into the cell; with a
\* value the compare-exchange comes next, without one the next turn
RingPopTakeWrite(t) ==
  /\ ring_pc[t] = "pop_take_write"
  /\ buffer' = [buffer EXCEPT ![read[t] % RING_SIZE] = NoValue]
  /\ ring_pc' = [ring_pc EXCEPT ![t] = IF value[t] = NoValue
                                         THEN "pop_read" ELSE "pop_cas"]
  /\ UNCHANGED <<write_index, read_index, write, read, value, next_value,
                 result, pushed, popped>>
  /\ NoteFull({})
  /\ UNCHANGED <<ebr, stack, queue, wrap>>

\* pop(): read_index.compare_exchange_weak(read, read + 1) succeeds;
\* return Some(value)
RingPopCas(t) ==
  /\ ring_pc[t] = "pop_cas"
  /\ read_index = read[t]
  /\ read_index' = read[t] + 1
  /\ popped' = Append(popped, value[t][1])
  /\ result' = [result EXCEPT ![t] = <<"Some", value[t][1]>>]
  /\ value' = [value EXCEPT ![t] = NoValue]
  /\ ring_pc' = [ring_pc EXCEPT ![t] = "idle"]
  /\ UNCHANGED <<buffer, write_index, write, read, next_value, pushed>>
  /\ NoteFull({})
  /\ UNCHANGED <<ebr, stack, queue, wrap>>

\* pop(): the compare-exchange fails; the value taken goes out of scope and
\* the loop takes another turn
RingPopCasFails(t) ==
  /\ ring_pc[t] = "pop_cas"
  /\ value' = [value EXCEPT ![t] = NoValue]
  /\ ring_pc' = [ring_pc EXCEPT ![t] = "pop_read"]
  /\ UNCHANGED <<buffer, write_index, read_index, write, read, next_value,
                 result, pushed, popped>>
  /\ NoteFull({})
  /\ UNCHANGED <<ebr, stack, queue, wrap>>

RingPush(t) ==
  \/ RingPushLoadWrite(t) \/ RingPushLoadRead(t) \/ RingPushCas(t)
  \/ RingPushCasFails(t) \/ RingPushStore(t)

RingPop(t) ==
  \/ RingPopLoadRead(t) \/ RingPopLoadWrite(t) \/ RingPopTakeRead(t)
  \/ RingPopTakeWrite(t) \/ RingPopCas(t) \/ RingPopCasFails(t)

\* the thread that pops where there is one consumer; the others push
Consumer == NRing
Producers == RThreads \ {Consumer}
Single == CHOOSE t \in RThreads : \A u \in RThreads : t <= u

\* A thread inside push() or pop() goes on taking steps, a producer goes on
\* pushing and a consumer goes on popping (the callers retry), and a
\* compare-exchange that finds the expected value again and again succeeds.
FairRing(P, C) ==
  /\ \A t \in P : WF_vars(RingPush(t)) /\ SF_vars(RingPushCas(t))
  /\ \A t \in C : WF_vars(RingPop(t)) /\ SF_vars(RingPopCas(t))

\* one thread uses the buffer
NextRingSingle == RingPush(Single) \/ RingPop(Single)
SpecRingSingle ==
  Init /\ [][NextRingSingle]_vars /\ FairRing({Single}, {Single})

\* one producer and one consumer
NextRingSPSC == RingPush(Single) \/ RingPop(Consumer)
SpecRingSPSC ==
  Init /\ [][NextRingSPSC]_vars /\ FairRing({Single}, {Consumer})

\* one producer and several consumers
Consumers == RThreads \ {Single}
NextRingSPMC == RingPush(Single) \/ (\E t \in Consumers : RingPop(t))
SpecRingSPMC ==
  Init /\ [][NextRingSPMC]_vars /\ FairRing({Single}, Consumers)

\* several producers and one consumer
NextRingMPSC == (\E t \in Producers : RingPush(t)) \/ RingPop(Consumer)
SpecRingMPSC ==
  Init /\ [][NextRingMPSC]_vars /\ FairRing(Producers, {Consumer})

\* the values a bounded FIFO holds after the Ok pushes and the pops so far
Held == SubSeq(pushed, Len(popped) + 1, Len(pushed))

\* the call of thread t returns in this step
RingReturns(t) == result[t] = <<>> /\ result'[t] # <<>>

\* C14: used by one thread, the buffer is a bounded FIFO of capacity
\* RING_SIZE: push returns Ok when fewer than RING_SIZE values are held and
\* gives the value back in Err when RING_SIZE are held, pop returns the
\* oldest value held and None when none is held, and every call returns.
C14_BoundedFifo ==
  /\ [][RingReturns(Single) =>
          LET r == result'[Single] IN
            /\ r[1] = "Ok" => /\ Len(Held) < RING_SIZE
                              /\ pushed' = Append(pushed, value[Single][1])
            /\ r[1] = "Err" => /\ Len(Held) = RING_SIZE
                               /\ r[2] = value[Single][1]
                               /\ UNCHANGED <<pushed, popped>>
            /\ r[1] = "Some" => /\ Held # <<>>
                                /\ r[2] = Head(Held)
                                /\ popped' = Append(popped, r[2])
            /\ r[1] = "None" => /\ Held = <<>>
                                /\ UNCHANGED <<pushed, popped>>]_vars
  /\ (ring_pc[Single] # "idle") ~> (ring_pc[Single] = "idle")

\* C15: with several producers and one consumer, all retrying, every value
\* whose push returned Ok is returned by exactly one pop: no pop returns a
\* value that was not pushed, no value is returned twice, and every value
\* pushed is returned in the end.
C15_PushedEqualsPopped ==
  /\ [](Range(popped) \subseteq Range(pushed))
  /\ [](\A i, j \in DOMAIN popped : popped[i] = popped[j] => i = j)
  /\ \A v \in Values : (v \in Range(pushed)) ~> (v \in Range(popped))

\* sequence q begins with sequence r
IsPrefix(r, q) == Len(r) <= Len(q) /\ SubSeq(q, 1, Len(r)) = r

\* C16: with one producer and one consumer the pops return the values
\* pushed, in the order of the pushes: at any time the values popped are the
\* first of the values pushed, and the n-th value pushed is popped in the end.
C16_PoppedInPushOrder ==
  /\ [](IsPrefix(popped, pushed))
  /\ \A n \in 1..MaxPushes : (Len(pushed) >= n) ~> (Len(popped) >= n)

\* ------------------------------------------------------ TreiberStack::push
\* push(): Box::into_raw(Box::new(Node { value, next: null_mut() })); the
\* allocator returns any address that holds no live Box
StackPushAlloc(t, a) ==
  /\ stack_pc[t] = "idle"
  /\ stack_item <= MaxItems
  /\ a \in Addrs \ stack_alloc
  /\ stack_alloc' = stack_alloc \cup {a}
  /\ stack_nodes' = [stack_nodes EXCEPT ![a] = Node(stack_item, null)]
  /\ stack_new' = [stack_new EXCEPT ![t] = a]
  /\ stack_item' = stack_item + 1
  /\ stack_pc' = [stack_pc EXCEPT ![t] = "push_load"]
  /\ UNCHANGED <<stack_head, stack_h, stack_n, stack_result, lifo,
                 stack_popped>>
  /\ UNCHANGED <<ebr, ring, queue, wrap>>

\* mutant: the new node is not linked to the head it is pushed onto
StackPushLoadNoLink(t) ==
  /\ stack_pc[t] = "push_load"
  /\ stack_h' = [stack_h EXCEPT ![t] = stack_head]
  /\ stack_pc' = [stack_pc EXCEPT ![t] = "push_cas"]
  /\ UNCHANGED <<stack_head, stack_nodes, stack_alloc, stack_new, stack_n,
                 stack_item, stack_result, lifo, stack_popped>>
  /\ UNCHANGED <<ebr, ring, queue, wrap>>

\* push(): let head = self.head.load(Acquire); (*new_node).next = head
StackPushLoad(t) ==
  /\ stack_pc[t] = "push_load"
  /\ stack_h' = [stack_h EXCEPT ![t] = stack_head]
  /\ stack_nodes' = [stack_nodes EXCEPT ![stack_new[t]].next = stack_head]
  /\ stack_pc' = [stack_pc EXCEPT ![t] = "push_cas"]
  /\ UNCHANGED <<stack_head, stack_alloc, stack_new, stack_n, stack_item,
                 stack_result, lifo, stack_popped>>
  /\ UNCHANGED <<ebr, ring, queue, wrap>>

\* mutant: the head is stored whatever it holds
StackPushStore(t) ==
  /\ stack_pc[t] = "push_cas"
  /\ stack_head' = stack_new[t]
  /\ lifo' = Append(lifo, stack_nodes[stack_new[t]].value)
  /\ stack_new' = [stack_new EXCEPT ![t] = null]
  /\ stack_h' = [stack_h EXCEPT ![t] = null]
  /\ stack_pc' = [stack_pc EXCEPT ![t] = "idle"]
  /\ UNCHANGED <<stack_nodes, stack_alloc, stack_n, stack_item, stack_result,
                 stack_popped>>
  /\ UNCHANGED <<ebr, ring, queue, wrap>>

\* push(): head.compare_exchange_weak(head, new_node) succeeds; break
StackPushCas(t) ==
  /\ stack_pc[t] = "push_cas"
  /\ stack_head = stack_h[t]
  /\ stack_head' = stack_new[t]
  /\ lifo' = Append(lifo, stack_nodes[stack_new[t]].value)
  /\ stack_new' = [stack_new EXCEPT ![t] = null]
  /\ stack_h' = [stack_h EXCEPT ![t] = null]
  /\ stack_pc' = [stack_pc EXCEPT ![t] = "idle"]
  /\ UNCHANGED <<stack_nodes, stack_alloc, stack_n, stack_item, stack_result,
                 stack_popped>>
  /\ UNCHANGED <<ebr, ring, queue, wrap>>

\* push(): the compare-exchange fails, because the head has changed or for
\* no reason, and the loop takes another turn
StackPushCasFails(t) ==
  /\ stack_pc[t] = "push_cas"
  /\ stack_pc' = [stack_pc EXCEPT ![t] = "push_load"]
  /\ UNCHANGED <<stack_head, stack_nodes, stack_alloc, stack_new, stack_h,
                 stack_n, stack_item, stack_result, lifo, stack_popped>>
  /\ UNCHANGED <<ebr, ring, queue, wrap>>

\* ------------------------------------------------------- TreiberStack::pop
\* pop(): let head = self.head.load(Acquire); if head.is_null() { return None }
StackPopLoad(t) ==
  /\ stack_pc[t] \in {"idle", "pop_load"}
  /\ stack_h' = [stack_h EXCEPT ![t] = stack_head]
  /\ IF stack_head = null
       THEN /\ stack_result' = [stack_result EXCEPT ![t] = <<"None">>]
            /\ stack_pc' = [stack_pc EXCEPT ![t] = "idle"]
       ELSE /\ stack_result' = [stack_result EXCEPT ![t] = <<>>]
            /\ stack_pc' = [stack_pc EXCEPT ![t] = "pop_next"]
  /\ UNCHANGED <<stack_head, stack_nodes, stack_alloc, stack_new, stack_n,
                 stack_item, lifo, stack_popped>>
  /\ UNCHANGED <<ebr, ring, queue, wrap>>

\* pop(): let next = (*head).next; a node that another pop() has freed
\* since the load reads as anything
StackPopNext(t) ==
  /\ stack_pc[t] = "pop_next"
  /\ \E n \in Addrs \cup {null} :
       /\ stack_h[t] \in stack_alloc => n = stack_nodes[stack_h[t]].next
       /\ stack_n' = [stack_n EXCEPT ![t] = n]
  /\ stack_pc' = [stack_pc EXCEPT ![t] = "pop_cas"]
  /\ UNCHANGED <<stack_head, stack_nodes, stack_alloc, stack_new, stack_h,
                 stack_item, stack_result, lifo, stack_popped>>
  /\ UNCHANGED <<ebr, ring, queue, wrap>>

\* pop(): head.compare_exchange_weak(head, next) succeeds;
\* let node = Box::from_raw(head); return Some(node.value)
StackPopCas(t) ==
  /\ stack_pc[t] = "pop_cas"
  /\ stack_head = stack_h[t]
  /\ stack_head' = stack_n[t]
  /\ LET v == stack_nodes[stack_h[t]].value IN
       /\ stack_result' = [stack_result EXCEPT ![t] = <<"Some", v>>]
       /\ stack_popped' = Append(stack_popped, v)
       /\ lifo' = SelectSeq(lifo, LAMBDA x : x # v)
  /\ stack_alloc' = stack_alloc \ {stack_h[t]}
  /\ stack_h' = [stack_h EXCEPT ![t] = null]
  /\ stack_n' = [stack_n EXCEPT ![t] = null]
  /\ stack_pc' = [stack_pc EXCEPT ![t] = "idle"]
  /\ UNCHANGED <<stack_nodes, stack_new, stack_item>>
  /\ UNCHANGED <<ebr, ring, queue, wrap>>

\* pop(): the compare-exchange fails, and the loop takes another turn
StackPopCasFails(t) ==
  /\ stack_pc[t] = "pop_cas"
  /\ stack_pc' = [stack_pc EXCEPT ![t] = "pop_load"]
  /\ UNCHANGED <<stack_head, stack_nodes, stack_alloc, stack_new, stack_h,
                 stack_n, stack_item, stack_result, lifo, stack_popped>>
  /\ UNCHANGED <<ebr, ring, queue, wrap>>

StackPush(t) ==
  \/ \E a \in Addrs : StackPushAlloc(t, a)
  \/ StackPushLoad(t) \/ StackPushCas(t) \/ StackPushCasFails(t)

StackPop(t) ==
  \/ StackPopLoad(t) \/ StackPopNext(t) \/ StackPopCas(t)
  \/ StackPopCasFails(t)

\* one thread uses the stack
NextStackSingle == StackPush(Single) \/ StackPop(Single)
SpecStackSingle == Init /\ [][NextStackSingle]_vars

\* every push() that will be made has returned
PushesDone ==
  /\ stack_item > MaxItems
  /\ \A t \in SThreads : stack_pc[t] \notin {"push_load", "push_cas"}

\* the threads push; when they have finished, one thread pops until None
StackDrain(t) == PushesDone /\ StackPop(t)
NextStackPushers == (\E t \in SThreads : StackPush(t)) \/ StackDrain(Single)
SpecStackPushers == Init /\ [][NextStackPushers]_vars

\* the values on the chain of nodes that starts at address a, the last
\* pushed first; the chain is followed for at most k nodes
RECURSIVE Chain(_, _)
Chain(a, k) ==
  IF a = null \/ k = 0 THEN <<>>
  ELSE <<stack_nodes[a].value>> \o Chain(stack_nodes[a].next, k - 1)

\* sequence q, last element first
Reverse(q) == [i \in 1..Len(q) |-> q[Len(q) + 1 - i]]

\* the pop() of thread t returns in this step
StackPopReturns(t) ==
  /\ stack_pc[t] \in {"idle", "pop_load", "pop_cas"}
  /\ stack_result'[t] # <<>>
  /\ stack_pc'[t] = "idle"
  /\ stack_result'[t] # stack_result[t] \/ stack_pc[t] # "idle"

\* C17: used by one thread, the stack is a LIFO: the nodes reachable from
\* head hold the values pushed and not popped, the last pushed first; pop
\* returns the value pushed last among them and removes it, and returns
\* None when there is none.
C17_Lifo ==
  /\ [](stack_pc[Single] = "idle" =>
           Chain(stack_head, MaxItems + 1) = Reverse(lifo))
  /\ [][StackPopReturns(Single) =>
          LET r == stack_result'[Single] IN
            /\ r[1] = "None" => lifo = <<>> /\ lifo' = <<>>
            /\ r[1] = "Some" => /\ lifo # <<>>
                                /\ r[2] = lifo[Len(lifo)]
                                /\ lifo' = SubSeq(lifo, 1, Len(lifo) - 1)]_vars

\* C17 happens: two values were pushed and popped, the later first, a third
\* was pushed after them, and the stack holds it alone
C17_Witness ==
  /\ stack_popped = <<2, 1>>
  /\ lifo = <<3>>
  /\ stack_pc[Single] = "idle"
  /\ stack_result[Single] = <<"Some", 1>>

\* the drain has come to its end: the pushes are done and pop() returned None
Drained ==
  /\ PushesDone
  /\ stack_pc[Single] = "idle"
  /\ stack_result[Single] = <<"None">>

\* C18: after pushes made by several threads in any interleaving, popping
\* until None returns exactly the values pushed, each once: no value comes
\* twice, every value returned was pushed, and when pop() returns None every
\* value pushed has been returned.
C18_DrainReturnsPushed ==
  /\ \A i, j \in DOMAIN stack_popped :
       stack_popped[i] = stack_popped[j] => i = j
  /\ Range(stack_popped) \subseteq StackItems
  /\ PushesDone /\ stack_pc[Single] = "idle" =>
       /\ Range(stack_popped) \cup Range(Chain(stack_head, MaxItems + 1)) = StackItems
       /\ Len(stack_popped) + Len(Chain(stack_head, MaxItems + 1)) = MaxItems
  /\ Drained => Range(stack_popped) = StackItems /\ Len(stack_popped) = MaxItems

\* C18 happens: the drain is over, and the pushes went onto the stack in
\* another order than they were called in
C18_Witness ==
  /\ Drained
  /\ Len(stack_popped) = MaxItems
  /\ stack_popped # Reverse([i \in 1..MaxItems |-> i])

\* ------------------------------------------------------- crossbeam_epoch
\* epoch::pin() publishes the global epoch as the thread's own; dropping the
\* guard unpins. defer_destroy() puts the node into the thread's bag; a bag
\* is sealed with the global epoch and handed to the collector when a later
\* defer_destroy() of the same thread finds it full. The global epoch
\* advances when every pinned thread is pinned at it, and the nodes of a bag
\* are destroyed once the epoch is two ahead of the bag's.
collector == <<epoch, pinned, bag, sealed>>
queue_locals == <<new_node, tail, head, next>>
queue_history == <<queue_pushed, queue_popped>>

\* the collector's try_advance(), run from a pin() or a defer of any thread
CollectorAdvance ==
  /\ epoch < MaxEpoch
  /\ \A t \in QThreads : pinned[t] \in {epoch, Unpinned}
  /\ epoch' = epoch + 1
  /\ UNCHANGED <<queue_head, queue_tail, queue_nodes, queue_alloc, queue_pc,
                 queue_locals, queue_item, queue_result, pinned, bag, sealed,
                 queue_history>>
  /\ UNCHANGED <<ebr, ring, stack, wrap>>

\* the collector runs the deferred destruction of node a
CollectorDestroy(a) ==
  /\ \E e \in 0..MaxEpoch : <<a, e>> \in sealed /\ e + 2 <= epoch
  /\ sealed' = {r \in sealed : r[1] # a}
  /\ queue_alloc' = queue_alloc \ {a}
  /\ UNCHANGED <<queue_head, queue_tail, queue_nodes, queue_pc, queue_locals,
                 queue_item, queue_result, epoch, pinned, bag, queue_history>>
  /\ UNCHANGED <<ebr, ring, stack, wrap>>

Collector == CollectorAdvance \/ \E a \in QAddrs : CollectorDestroy(a)

\* what a load of the next field of the node at address a can give: the
\* field, or anything when the node has been destroyed
NextOf(a) ==
  IF a \in queue_alloc THEN {queue_nodes[a].next} ELSE QAddrs \cup {null}

\* ----------------------------------------------------------- MSQueue::push
\* push(): let guard = &epoch::pin();
\* let new_node = Owned::new(Node::new(data)).into_shared(guard)
QueuePushPin(t, a) ==
  /\ queue_pc[t] = "idle"
  /\ queue_item <= MaxQueued
  /\ a \in QAddrs \ queue_alloc
  /\ pinned' = [pinned EXCEPT ![t] = epoch]
  /\ queue_alloc' = queue_alloc \cup {a}
  /\ queue_nodes' = [queue_nodes EXCEPT ![a] = QNode(SomeValue(queue_item), null)]
  /\ new_node' = [new_node EXCEPT ![t] = a]
  /\ queue_item' = queue_item + 1
  /\ queue_pc' = [queue_pc EXCEPT ![t] = "push_tail"]
  /\ UNCHANGED <<queue_head, queue_tail, tail, head, next, queue_result,
                 epoch, bag, sealed, queue_history>>
  /\ UNCHANGED <<ebr, ring, stack, wrap>>

\* push(): let tail = self.tail.load(Acquire, guard)
QueuePushLoadTail(t) ==
  /\ queue_pc[t] = "push_tail"
  /\ tail' = [tail EXCEPT ![t] = queue_tail]
  /\ queue_pc' = [queue_pc EXCEPT ![t] = "push_next"]
  /\ UNCHANGED <<queue_head, queue_tail, queue_nodes, queue_alloc, new_node,
                 head, next, queue_item, queue_result, collector,
                 queue_history>>
  /\ UNCHANGED <<ebr, ring, stack, wrap>>

\* push(): let next = tail_ref.next.load(Acquire, guard); if !next.is_null()
QueuePushLoadNext(t) ==
  /\ queue_pc[t] = "push_next"
  /\ \E n \in NextOf(tail[t]) :
       /\ next' = [next EXCEPT ![t] = n]
       /\ queue_pc' = [queue_pc EXCEPT ![t] = IF n # null THEN "push_help"
                                                ELSE "push_link"]
  /\ UNCHANGED <<queue_head, queue_tail, queue_nodes, queue_alloc, new_node,
                 tail, head, queue_item, queue_result, collector,
                 queue_history>>
  /\ UNCHANGED <<ebr, ring, stack, wrap>>

\* push(): let _ = self.tail.compare_exchange_weak(tail, next); continue.
\* The exchange is made or not, and the loop takes another turn either way.
QueuePushHelp(t) ==
  /\ queue_pc[t] = "push_help"
  /\ \/ queue_tail = tail[t] /\ queue_tail' = next[t]
     \/ UNCHANGED queue_tail
  /\ queue_pc' = [queue_pc EXCEPT ![t] = "push_tail"]
  /\ UNCHANGED <<queue_head, queue_nodes, queue_alloc, queue_locals,
                 queue_item, queue_result, collector, queue_history>>
  /\ UNCHANGED <<ebr, ring, stack, wrap>>

\* mutant: the new node is stored into tail_ref.next whatever it holds
QueuePushLinkBlind(t) ==
  /\ queue_pc[t] = "push_link"
  /\ queue_nodes' = [queue_nodes EXCEPT ![tail[t]].next = new_node[t]]
  /\ queue_pushed' = Append(queue_pushed, queue_nodes[new_node[t]].data[1])
  /\ queue_pc' = [queue_pc EXCEPT ![t] = "push_swing"]
  /\ UNCHANGED <<queue_head, queue_tail, queue_alloc, queue_locals,
                 queue_item, queue_result, collector, queue_popped>>
  /\ UNCHANGED <<ebr, ring, stack, wrap>>

\* push(): tail_ref.next.compare_exchange_weak(null, new_node) succeeds
QueuePushLink(t) ==
  /\ queue_pc[t] = "push_link"
  /\ null \in NextOf(tail[t])
  /\ queue_nodes' = [queue_nodes EXCEPT ![tail[t]].next = new_node[t]]
  /\ queue_pushed' = Append(queue_pushed, queue_nodes[new_node[t]].data[1])
  /\ queue_pc' = [queue_pc EXCEPT ![t] = "push_swing"]
  /\ UNCHANGED <<queue_head, queue_tail, queue_alloc, queue_locals,
                 queue_item, queue_result, collector, queue_popped>>
  /\ UNCHANGED <<ebr, ring, stack, wrap>>

\* push(): the compare-exchange on tail_ref.next fails, and the loop takes
\* another turn
QueuePushLinkFails(t) ==
  /\ queue_pc[t] = "push_link"
  /\ queue_pc' = [queue_pc EXCEPT ![t] = "push_tail"]
  /\ UNCHANGED <<queue_head, queue_tail, queue_nodes, queue_alloc,
                 queue_locals, queue_item, queue_result, collector,
                 queue_history>>
  /\ UNCHANGED <<ebr, ring, stack, wrap>>

\* push(): let _ = self.tail.compare_exchange_weak(tail, new_node); return.
\* The exchange is made or not; the guard is dropped.
QueuePushSwing(t) ==
  /\ queue_pc[t] = "push_swing"
  /\ \/ queue_tail = tail[t] /\ queue_tail' = new_node[t]
     \/ UNCHANGED queue_tail
  /\ pinned' = [pinned EXCEPT ![t] = Unpinned]
  /\ new_node' = [new_node EXCEPT ![t] = null]
  /\ tail' = [tail EXCEPT ![t] = null]
  /\ next' = [next EXCEPT ![t] = null]
  /\ queue_pc' = [queue_pc EXCEPT ![t] = "idle"]
  /\ UNCHANGED <<queue_head, queue_nodes, queue_alloc, head, queue_item,
                 queue_result, epoch, bag, sealed, queue_history>>
  /\ UNCHANGED <<ebr, ring, stack, wrap>>

\* ------------------------------------------------------------ MSQueue::pop
\* pop(): let guard = &epoch::pin()
QueuePopPin(t) ==
  /\ queue_pc[t] = "idle"
  /\ pinned' = [pinned EXCEPT ![t] = epoch]
  /\ queue_result' = [queue_result EXCEPT ![t] = <<>>]
  /\ queue_pc' = [queue_pc EXCEPT ![t] = "pop_head"]
  /\ UNCHANGED <<queue_head, queue_tail, queue_nodes, queue_alloc,
                 queue_locals, queue_item, epoch, bag, sealed, queue_history>>
  /\ UNCHANGED <<ebr, ring, stack, wrap>>

\* pop(): let head = self.head.load(Acquire, guard)
QueuePopLoadHead(t) ==
  /\ queue_pc[t] = "pop_head"
  /\ head' = [head EXCEPT ![t] = queue_head]
  /\ queue_pc' = [queue_pc EXCEPT ![t] = "pop_next"]
  /\ UNCHANGED <<queue_head, queue_tail, queue_nodes, queue_alloc, new_node,
                 tail, next, queue_item, queue_result, collector,
                 queue_history>>
  /\ UNCHANGED <<ebr, ring, stack, wrap>>

\* pop(): let next = head_ref.next.load(Acquire, guard);
\* if next.is_null() { return None }
QueuePopLoadNext(t) ==
  /\ queue_pc[t] = "pop_next"
  /\ \E n \in NextOf(head[t]) :
       IF n = null
         THEN /\ queue_result' = [queue_result EXCEPT ![t] = <<"None">>]
              /\ pinned' = [pinned EXCEPT ![t] = Unpinned]
              /\ head' = [head EXCEPT ![t] = null]
              /\ queue_pc' = [queue_pc EXCEPT ![t] = "idle"]
              /\ UNCHANGED next
         ELSE /\ next' = [next EXCEPT ![t] = n]
              /\ queue_pc' = [queue_pc EXCEPT ![t] = "pop_cas"]
              /\ UNCHANGED <<queue_result, pinned, head>>
  /\ UNCHANGED <<queue_head, queue_tail, queue_nodes, queue_alloc, new_node,
                 tail, queue_item, epoch, bag, sealed, queue_history>>
  /\ UNCHANGED <<ebr, ring, stack, wrap>>

\* mutant: pop() returns the data of the node it unlinks
QueuePopCasOldHead(t) ==
  /\ queue_pc[t] = "pop_cas"
  /\ queue_head = head[t]
  /\ queue_head' = next[t]
  /\ LET d == queue_nodes[head[t]].data IN
       /\ queue_nodes' = [queue_nodes EXCEPT ![head[t]].data = NoValue]
       /\ queue_result' = [queue_result EXCEPT ![t] = <<"Some">> \o d]
       /\ queue_popped' = queue_popped \o d
  /\ \/ /\ bag' = [bag EXCEPT ![t] = @ \cup {head[t]}]
        /\ UNCHANGED sealed
     \/ /\ bag[t] # {}
        /\ sealed' = sealed \cup {<<a, epoch>> : a \in bag[t]}
        /\ bag' = [bag EXCEPT ![t] = {head[t]}]
  /\ pinned' = [pinned EXCEPT ![t] = Unpinned]
  /\ head' = [head EXCEPT ![t] = null]
  /\ next' = [next EXCEPT ![t] = null]
  /\ queue_pc' = [queue_pc EXCEPT ![t] = "idle"]
  /\ UNCHANGED <<queue_tail, queue_alloc, new_node, tail, queue_item, epoch,
                 queue_pushed>>
  /\ UNCHANGED <<ebr, ring, stack, wrap>>

\* pop(): head.compare_exchange_weak(head, next) succeeds;
\* let data = next_ref.data.take(); guard.defer_destroy(head); return data.
\* The guard is dropped.
QueuePopCas(t) ==
  /\ queue_pc[t] = "pop_cas"
  /\ queue_head = head[t]
  /\ queue_head' = next[t]
  /\ LET d == queue_nodes[next[t]].data IN
       /\ queue_nodes' = [queue_nodes EXCEPT ![next[t]].data = NoValue]
       /\ queue_result' = [queue_result EXCEPT ![t] = <<"Some">> \o d]
       /\ queue_popped' = queue_popped \o d
  /\ \/ /\ bag' = [bag EXCEPT ![t] = @ \cup {head[t]}]
        /\ UNCHANGED sealed
     \/ /\ bag[t] # {}
        /\ sealed' = sealed \cup {<<a, epoch>> : a \in bag[t]}
        /\ bag' = [bag EXCEPT ![t] = {head[t]}]
  /\ pinned' = [pinned EXCEPT ![t] = Unpinned]
  /\ head' = [head EXCEPT ![t] = null]
  /\ next' = [next EXCEPT ![t] = null]
  /\ queue_pc' = [queue_pc EXCEPT ![t] = "idle"]
  /\ UNCHANGED <<queue_tail, queue_alloc, new_node, tail, queue_item, epoch,
                 queue_pushed>>
  /\ UNCHANGED <<ebr, ring, stack, wrap>>

\* pop(): the compare-exchange on head fails, and the loop takes another turn
QueuePopCasFails(t) ==
  /\ queue_pc[t] = "pop_cas"
  /\ queue_pc' = [queue_pc EXCEPT ![t] = "pop_head"]
  /\ UNCHANGED <<queue_head, queue_tail, queue_nodes, queue_alloc,
                 queue_locals, queue_item, queue_result, collector,
                 queue_history>>
  /\ UNCHANGED <<ebr, ring, stack, wrap>>

QueuePush(t) ==
  \/ \E a \in QAddrs : QueuePushPin(t, a)
  \/ QueuePushLoadTail(t) \/ QueuePushLoadNext(t) \/ QueuePushHelp(t)
  \/ QueuePushLink(t) \/ QueuePushLinkFails(t) \/ QueuePushSwing(t)

QueuePop(t) ==
  \/ QueuePopPin(t) \/ QueuePopLoadHead(t) \/ QueuePopLoadNext(t)
  \/ QueuePopCas(t) \/ QueuePopCasFails(t)

\* one thread uses the queue
NextQueueSingle == QueuePush(Single) \/ QueuePop(Single) \/ Collector
SpecQueueSingle == Init /\ [][NextQueueSingle]_vars

\* half of the threads push and the others pop
QProducers == 1..(NQueue \div 2)
QConsumers == QThreads \ QProducers
NextQueueMPMC ==
  \/ \E t \in QProducers : QueuePush(t)
  \/ \E t \in QConsumers : QueuePop(t)
  \/ Collector
SpecQueueMPMC == Init /\ [][NextQueueMPMC]_vars

\* the data of the nodes that follow the node at address a, the oldest
\* first; the chain is followed for at most k nodes
RECURSIVE QueueChain(_, _)
QueueChain(a, k) ==
  IF k = 0 \/ queue_nodes[a].next = null THEN <<>>
  ELSE queue_nodes[queue_nodes[a].next].data
         \o QueueChain(queue_nodes[a].next, k - 1)

\* the values the queue holds, the oldest first
Queued == QueueChain(queue_head, MaxQueued + 1)

\* no thread holds the address of a destroyed node where it will follow it
NoDangling ==
  \A t \in QThreads :
    /\ queue_pc[t] \in {"push_next", "push_link"} => tail[t] \in queue_alloc
    /\ queue_pc[t] \in {"pop_next", "pop_cas"} => head[t] \in queue_alloc
    /\ queue_pc[t] = "pop_cas" => next[t] \in queue_alloc

\* the values linked and not yet unlinked, the oldest first
QueueHeld == SubSeq(queue_pushed, Len(queue_popped) + 1, Len(queue_pushed))

\* the pop() of thread t returns in this step
QueuePopReturns(t) ==
  /\ queue_pc[t] \in {"pop_next", "pop_cas"}
  /\ queue_pc'[t] = "idle"

\* C19: used by one thread, the queue is an unbounded FIFO: between calls
\* the nodes after head hold the values pushed and not popped, the oldest
\* first; pop returns the oldest of them and removes it, and returns None
\* when there is none; no call follows a pointer to a destroyed node.
C19_Fifo ==
  /\ [](queue_pc[Single] = "idle" => Queued = QueueHeld)
  /\ [](NoDangling)
  /\ [][QueuePopReturns(Single) =>
          IF QueueHeld = <<>>
            THEN /\ queue_result'[Single] = <<"None">>
                 /\ UNCHANGED queue_history
            ELSE /\ queue_result'[Single] = <<"Some", Head(QueueHeld)>>
                 /\ queue_popped' = Append(queue_popped, Head(QueueHeld))
                 /\ UNCHANGED queue_pushed]_vars

\* C19 happens: pushes and pops alternated, the queue is empty again and
\* the last pop() returned None
C19_Witness ==
  /\ queue_pc[Single] = "idle"
  /\ queue_result[Single] = <<"None">>
  /\ Len(queue_popped) = MaxQueued
  /\ queue_popped = queue_pushed
  /\ queue_alloc # QAddrs

Pinned(i) == active[i] /\ local_epoch[i] # UNPINNED_EPOCH

\* the store of a new epoch by thread t's advancement attempt
Advances(t) == pc[t] = "adv_store" /\ pc'[t] = "adv_sweep"

\* C21: no pinned slot is two or more epochs behind the global epoch: every
\* active slot that holds an epoch holds global_epoch - 1 or later.
C21_PinnedWithinOne ==
  \A i \in Slots : Pinned(i) => local_epoch[i] + 1 >= global_epoch

\* C21, at the store: when an advancement attempt stores cur + 1, every
\* pinned slot holds cur or later.
C21_AdvanceSeesAll ==
  [][\A t \in Threads : Advances(t) =>
        \A i \in Slots : Pinned(i) => local_epoch[i] >= cur_epoch[t]]_vars

\* thread t's step stores into local_epoch of slot i: the store of its
\* registration, of its pin(), of the release of one of its guards, or of its
\* unregister_thread()
WritesEpoch(t, i) ==
  \/ RegInit(t) /\ i = loop_i[t]
  \/ PinStore(t) /\ i = local_data[t].index
  \/ \E k \in DOMAIN guards[t] : DropGuard(t, k) /\ i = guards[t][k].index
  \/ UnregEpoch(t) /\ i = taken[t].index

\* C22: a slot's local_epoch is stored only by the thread whose registration
\* holds the slot, or by the thread that gave the slot up while no other
\* registration has claimed it since.
C22_SingleWriter ==
  [][\A t \in Threads : \A i \in Slots :
        WritesEpoch(t, i) => owner[i] \in {t, NoOwner}]_vars

\* the slots thread t's registration holds: the one its compare_exchange has
\* just claimed, or the one recorded in its LOCAL_DATA
HeldSlots(t) ==
  IF pc[t] = "reg_init" THEN {loop_i[t]}
  ELSE IF local_data[t].some THEN {local_data[t].index}
  ELSE {}

\* C23: registration claims an inactive slot in one atomic step and leaves
\* UNPINNED_EPOCH in it; at any time the slots held by two registered threads
\* differ, and a held slot is active.
C23_SlotsNotShared ==
  /\ \A t, u \in Threads : t # u => HeldSlots(t) \cap HeldSlots(u) = {}
  /\ \A t \in Threads : \A i \in HeldSlots(t) : active[i]
  /\ \A t \in Threads :
       pc[t] = "pin_load" => local_epoch[local_data[t].index] = UNPINNED_EPOCH

\* C23 happens: two registrations are under way at the same time, each with
\* a slot of its own, one of them by a thread that has unregistered before
C23_Witness ==
  \E t, u \in Threads :
    /\ t # u
    /\ pc[t] = "reg_init" /\ pc[u] = "reg_init"
    /\ registrations[t] >= 1
    /\ loop_i[t] # loop_i[u]

\* thread t is inside an advancement attempt, past the lock() that begins it
InAttempt(t) ==
  pc[t] \in {"adv_scan", "adv_epoch", "adv_store", "adv_sweep", "adv_unlock"}

\* C24: global_epoch starts at zero; a step that changes it is the store of
\* an advancement attempt by the thread that holds the advancement lock, and
\* adds exactly one; the threads inside an attempt hold the lock, so there is
\* at most one of them.
C24_EpochAdvancesUnderLock ==
  /\ global_epoch = 0
  /\ [][global_epoch' # global_epoch =>
          /\ global_epoch' = global_epoch + 1
          /\ epoch_lock \in Threads
          /\ epoch_lock' = epoch_lock
          /\ Advances(epoch_lock)]_vars
  /\ [](\A t \in Threads : InAttempt(t) => epoch_lock = t)

\* C24 happens: the epoch has been advanced, and a thread waits for the
\* lock while another is inside its attempt
C24_Witness ==
  /\ global_epoch >= 1
  /\ \E t, u \in Threads :
       /\ InAttempt(t)
       /\ pc[u] = "adv_lock"

\* thread t is in the sweep of an advancement pass
InSweep(t) == pc[t] = "adv_sweep"

\* the sweep of thread t ends in this step
SweepEnds(t) == pc[t] = "adv_sweep" /\ pc'[t] = "idle"

\* C25: the pass that stores the epoch new sweeps under that epoch; a step
\* of its sweep takes one item out of the caller's garbage sequence, an item
\* tagged new - 2 or earlier, invokes its deleter and leaves the other items
\* in their order; the store and the end of the pass leave the sequence as
\* it is, and when the sweep ends no item tagged new - 2 or earlier is left.
C25_SweepFreesTwoBehind ==
  [][\A t \in Threads :
       LET g == local_data[t].local_garbage
           h == local_data'[t].local_garbage IN
         /\ Advances(t) => h = g /\ freed' = freed /\ new_epoch'[t] = global_epoch'
         /\ InSweep(t) => global_epoch = new_epoch[t]
         /\ InSweep(t) /\ h # g =>
              \E j \in DOMAIN g :
                /\ g[j].epoch + 2 <= global_epoch
                /\ h = RemoveAt(g, j)
                /\ freed' = Delete(g[j].ptr)
         /\ SweepEnds(t) =>
              /\ h = g
              /\ \A j \in DOMAIN g : g[j].epoch + 2 > global_epoch]_vars

\* C25 happens: a sweep under epoch 2 has freed the items tagged 0 and kept
\* an item tagged 1, and has nothing left to free
C25_Witness ==
  \E t \in Threads :
    /\ InSweep(t)
    /\ new_epoch[t] = 2
    /\ Len(local_data[t].local_garbage) = 1
    /\ local_data[t].local_garbage[1].epoch = 1
    /\ \E o \in Objs : freed[o] = 1

\* thread t takes a step of the call it is in
Moves(t) == <<pc[t], loop_i[t]>>' # <<pc[t], loop_i[t]>>

\* the scan of thread t's attempt is at a slot pinned before cur_epoch
AtStaleSlot(t) ==
  /\ pc[t] = "adv_epoch"
  /\ local_epoch[loop_i[t]] # UNPINNED_EPOCH
  /\ local_epoch[loop_i[t]] < cur_epoch[t]

\* thread t's attempt has found a stale slot and is about to return
Aborting(t) == pc[t] = "adv_unlock"

\* C26: a scan that comes upon an active slot pinned before cur_epoch ends
\* the attempt; from the lock() to the return, the steps of such an attempt
\* change neither global_epoch, nor any slot, nor the caller's garbage
\* sequence, and invoke no deleter; the attempt releases the lock and
\* retire() returns without a panic, with global_epoch as the attempt found
\* it and the items of the caller, the new one included, still in the
\* sequence.
C26_AbortChangesNothing ==
  /\ [][\A t \in Threads :
          /\ AtStaleSlot(t) /\ Moves(t) => Aborting(t)'
          /\ (pc[t] \in {"adv_lock", "adv_scan", "adv_epoch"} \/ Aborting(t)) /\ Moves(t) =>
               UNCHANGED <<global_epoch, active, local_epoch, local_data, freed>>
          /\ Aborting(t) /\ Moves(t) => pc'[t] = "idle" /\ epoch_lock' = 0]_vars
  /\ [](\A t \in Threads :
          Aborting(t) =>
            /\ epoch_lock = t
            /\ global_epoch = cur_epoch[t]
            /\ Len(local_data[t].local_garbage) >= GARBAGE_LIMIT)

\* C26 happens: an attempt has been turned back by the slot of another
\* thread
C26_Witness ==
  \E t \in Threads : \E i \in Slots :
    /\ Aborting(t)
    /\ Pinned(i)
    /\ local_epoch[i] < cur_epoch[t]
    /\ owner[i] \in Threads \ {t}

\* the objects in the garbage sequence of thread t
Retirees(t) == {r.ptr : r \in Range(Garbage(t))}

\* C27: a step of one thread (of its retire(), of its advancement pass, of
\* its unregister_thread()) leaves the garbage sequence of every other thread
\* as it is, and an object whose deleter a step invokes comes out of the
\* garbage sequence of the thread that takes the step.
C27_OwnGarbageOnly ==
  [][\A u \in Threads :
        Step(u) =>
          /\ \A t \in Threads \ {u} : Garbage(t)' = Garbage(t)
          /\ \A o \in Objs :
               Freeing(o) => o \in Retirees(u) /\ o \notin Retirees(u)']_vars

\* C27 happens: a sweep has freed items of its thread and has none left to
\* free, while the sequence of another thread holds an item that is two
\* epochs behind
C27_Witness ==
  \E t, u \in Threads :
    /\ t # u
    /\ InSweep(t)
    /\ FirstExpired(local_data[t].local_garbage, new_epoch[t]) = 0
    /\ Len(local_data[t].local_garbage) < GARBAGE_LIMIT
    /\ \E r \in Range(local_data[u].local_garbage) : r.epoch + 2 <= global_epoch

\* a retire() of thread t takes the object next_obj in this step
RetireAppends(t) == Step(t) /\ next_obj' # next_obj

\* the items of q are in the order in which their objects were retired
InRetirementOrder(q) ==
  \A i, j \in DOMAIN q : i < j => q[i].ptr < q[j].ptr

\* C28: a retire() leaves the caller's garbage sequence as it was with one
\* item more at its tail, the object retired, tagged with the epoch of a
\* guard the caller holds (the epoch the pin() of that guard loaded), and
\* leaves the other sequences alone; every garbage sequence is in the order
\* of the retirements.
C28_RetireAppendsAtTail ==
  /\ [][\A t \in Threads :
          RetireAppends(t) =>
            LET g == local_data[t].local_garbage
                h == local_data'[t].local_garbage IN
              /\ Len(h) = Len(g) + 1
              /\ SubSeq(h, 1, Len(g)) = g
              /\ h[Len(h)].ptr = next_obj
              /\ h[Len(h)].epoch \in {guards[t][k].epoch : k \in DOMAIN guards[t]}
              /\ \A u \in Threads \ {t} : local_data'[u] = local_data[u]]_vars
  /\ [](\A t \in Threads : InRetirementOrder(Garbage(t)))

\* C28 happens: a thread has retired under a guard of epoch 0 and then
\* under a guard of epoch 1, and its sequence holds the items in that order
C28_Witness ==
  \E t \in Threads :
    LET g == local_data[t].local_garbage IN
      /\ Len(g) = 3
      /\ g[1].epoch = 0
      /\ g[3].epoch = 1
      /\ pc[t] = "adv_lock"

\* thread t's retire() has called attempt_advance_epoch()
Attempting(t) == pc[t] = "adv_lock" \/ InAttempt(t)

\* C29: a retire() goes on to an advancement attempt exactly when the
\* caller's garbage sequence holds GARBAGE_LIMIT items or more after the
\* append; otherwise it returns at once, and its step changes neither the
\* advancement lock nor global_epoch and invokes no deleter. The lock is
\* taken only by a retire() that has reached the mark.
C29_AttemptAtHighWaterMark ==
  /\ [][\A t \in Threads :
          /\ RetireAppends(t) =>
               LET h == local_data'[t].local_garbage IN
                 /\ Attempting(t)' <=> Len(h) >= GARBAGE_LIMIT
                 /\ Len(h) < GARBAGE_LIMIT =>
                      /\ pc'[t] = "idle"
                      /\ UNCHANGED <<epoch_lock, global_epoch, freed>>
          /\ epoch_lock # t /\ epoch_lock' = t =>
               /\ pc[t] = "adv_lock"
               /\ Len(local_data[t].local_garbage) >= GARBAGE_LIMIT]_vars
  /\ [](\A t \in Threads :
          Attempting(t) /\ ~InSweep(t) =>
            Len(local_data[t].local_garbage) >= GARBAGE_LIMIT)

\* C29 happens: one thread's retire() has reached the mark and is about to
\* take the lock, another thread's retire() has returned below the mark, and
\* nothing has been advanced or freed
C29_Witness ==
  \E t, u \in Threads :
    /\ t # u
    /\ pc[t] = "adv_lock"
    /\ Len(local_data[t].local_garbage) = GARBAGE_LIMIT
    /\ pc[u] = "idle"
    /\ Len(local_data[u].local_garbage) = GARBAGE_LIMIT - 1
    /\ epoch_lock = 0
    /\ global_epoch = 0
    /\ \A o \in Objs : freed[o] = 0

\* the attempt of thread t is ended by the slot its scan is at
AbortsAtSlot(t) == pc[t] = "adv_epoch" /\ Aborting(t)'

\* C30: a slot whose active flag is false never makes an advancement
\* attempt abort, whatever its local_epoch holds.
C30_InactiveNeverAborts ==
  [][\A t \in Threads : AbortsAtSlot(t) => active[loop_i[t]]]_vars

\* C30 (amended): a slot whose active flag the scan reads as false is passed
\* over without a look at its local_epoch, and an attempt is ended only by a
\* slot whose active flag the scan has read as true in the same iteration;
\* that slot may have been made inactive since.
C30_InactiveReadIsSkipped ==
  [][\A t \in Threads :
        /\ pc[t] = "adv_scan" /\ Moves(t) /\ ~active[loop_i[t]] =>
             /\ pc'[t] \in {"adv_scan", "adv_store"}
             /\ pc'[t] = "adv_scan" => loop_i'[t] = loop_i[t] + 1
        /\ pc[t] = "adv_scan" /\ Moves(t) /\ active[loop_i[t]] =>
             pc'[t] = "adv_epoch" /\ loop_i'[t] = loop_i[t]
        /\ ~Aborting(t) /\ Aborting(t)' => pc[t] = "adv_epoch"]_vars

\* C30 happens: a scan has gone through the slots and is about to store the
\* next epoch, while the slot that a thread in its unregister_thread() has
\* made inactive still holds an epoch before cur_epoch
C30_Witness ==
  \E t, u \in Threads :
    /\ pc[t] = "adv_store"
    /\ pc[u] = "unreg_epoch"
    /\ ~active[taken[u].index]
    /\ local_epoch[taken[u].index] # UNPINNED_EPOCH
    /\ local_epoch[taken[u].index] < cur_epoch[t]

\* C31: the new epoch is cur + 1 modulo the range of the counter, and while
\* the epochs in use span less than that range the stale-pin test of every
\* scan and the reclaim test of every sweep decide as the same tests decide
\* on the numbers of advances, which do not wrap.
C31_WrapKeepsDecisions ==
  /\ wrap_global = true_global % EpochRange
  /\ Len(scan_result) = 3 /\ scan_result[3] => scan_result[1] = scan_result[2]
  /\ Len(sweep_result) = 3 /\ sweep_result[3] => sweep_result[1] = sweep_result[2]

\* C31, for the computation of the new epoch alone
C31_EpochWraps == wrap_global = true_global % EpochRange

\* the push() of thread t returns Err(value) in this step
PushReturnsErr(t) == RingReturns(t) /\ result'[t][1] = "Err"

\* C32: a push() returns Err(value) only if the buffer has held RING_SIZE
\* unread elements at some moment between the call and the return.
C32_ErrOnlyWhenFull ==
  [][\A t \in RThreads : PushReturnsErr(t) => was_full'[t]]_vars

\* the compare-exchange of thread t's pop() is made in this step, after the
\* take() that gave it a value
PopCasStep(t) == ring_pc[t] = "pop_cas" /\ ring_pc'[t] # "pop_cas"

\* C33: with several consumers, a pop() that has taken a value out of a cell
\* returns that value: the step of its compare-exchange ends the call with
\* Some(value).
C33_TakenIsReturned ==
  [][\A t \in Consumers :
        PopCasStep(t) => result'[t] = <<"Some", value[t][1]>>]_vars

====
